---- MODULE Spec2Model ----
(***************************************************************************)
(* DataVizStream: the synthetic dataset generator (utils/data_sources.py)  *)
(* and the five layout engines (visualizations/*.py).                      *)
(*                                                                         *)
(* Numbers.  Python floats are modelled in fixed point: a field value v    *)
(* (valuation in $B, growth in %, impact score) is the integer 100*v.      *)
(* A value that may be NaN is a sequence: <<v>> is the number v, << >> is  *)
(* NaN.                                                                    *)
(***************************************************************************)
EXTENDS Integers, Sequences, FiniteSets, TLC

VARIABLES
    large_dataset,  \* generate_large_realistic_dataset: the list it returns
    gen_call,       \* ... the call: its size and each iteration's locals
    external_reads, \* number of file / database reads done by data_sources.py
    data,           \* the caller-owned list handed to a layout engine
    df,             \* the engine's working DataFrame when it returned
    fig,            \* the figure the last engine call returned
    rng_before,     \* the state np.random was in when that call was made
    first_call,     \* fig and rng_before of the first engine call on the data
    np_random,      \* state of numpy's global generator (np.random)
    ds_in,          \* down-sampling in isolation: the DataFrame given
    ds_cap,         \* ... the cap it is applied with
    ds,             \* ... the DataFrame after the applications so far
    ds_once,        \* ... the result of the first application
    ds_calls,       \* ... number of applications so far
    fetched,        \* the last call of an external fetcher: response, result
    other,          \* the dataset rendered before the current one, and its figure
    session,        \* app.py: st.session_state, the widgets, the script's position
    loaded          \* app.py: the data loading of one script run

vars == <<large_dataset, gen_call, external_reads, data, df, fig, rng_before,
          first_call, np_random, ds_in, ds_cap, ds, ds_once, ds_calls, fetched,
          other, session, loaded>>

genVars    == <<large_dataset, gen_call, external_reads>>
engineVars == <<data, df, fig, rng_before, first_call, np_random>>
sampleVars == <<ds_in, ds_cap, ds, ds_once, ds_calls>>
fetchVars  == <<fetched>>
pairVars   == <<other>>
appVars    == <<session, loaded>>

(***************************************************************************)
(* Bounds of the model.                                                    *)
(***************************************************************************)
MaxGen == 2        \* generate_large_realistic_dataset(size): size <= MaxGen
MaxRows == 2       \* enumerated input lists have at most MaxRows records
MaxClicks == 2     \* widget interactions of the user in one session
PickedMax == 20    \* slider positions used: up to PickedMax, and the maximum
MaxAge == 300      \* ages of last_refresh are told apart up to MaxAge seconds
MaxCalls == 2      \* down-sampling in isolation is applied at most MaxCalls times
Excess == 1        \* the large input list has (largest cap + Excess) records
RngStates == 3     \* number of distinct states of the modelled np.random
MaxItems == 2      \* a JSON array in an HTTP response has at most MaxItems items
MaxPatterns == 2   \* number of draw sequences tried for a size above MaxGen
EndToEndCount == 100   \* a mid-size request: generator -> engine, end to end

Min(a, b) == IF a <= b THEN a ELSE b
Max(a, b) == IF a >= b THEN a ELSE b

(***************************************************************************)
(* Values shared by the specifications.                                    *)
(***************************************************************************)
None    == [kind |-> "None"]
List(s) == [kind |-> "list", items |-> s]
NoFig   == [kind |-> "none"]
NoFrame == [columns |-> {}, index |-> << >>, rows |-> << >>]

(***************************************************************************)
(* Column names.                                                           *)
(***************************************************************************)
COMPANY   == "Company"
VALUATION == "Valuation ($B)"
IMPACT    == "AI Impact Score"
GROWTH    == "Growth Rate (%)"
SECTOR    == "Sector"
STATUS    == "Status"

(***************************************************************************)
(* utils/data_sources.py: generate_large_realistic_dataset                 *)
(***************************************************************************)
sectors ==
    << "Fintech", "Healthtech", "AI/ML", "E-commerce", "SaaS", "Edtech",
       "Gaming", "Aerospace", "Cybersecurity", "Biotech", "Cleantech",
       "Mobility", "Foodtech", "Proptech", "Adtech", "Logistics" >>

statuses == << "Unicorn", "Soonicorn", "Decacorn", "Hectocorn" >>

\* random.choice(sectors): one sector per branch of the if/elif chain, both
\* arms of the "Healthtech or Biotech" test, and one sector of the else branch.
SectorDraws ==
    { sectors[i] : i \in {1, 2, 3, 4, 5, 10} }

StatusDraws == { statuses[i] : i \in 1..Len(statuses) }

\* random.uniform(a, b) returns a + (b-a) * random.random(); q is the modelled
\* value of random.random(), 0 or 1: the two ends of the range.
uniform(a, b, q) == a + (b - a) * q
Quantiles == {0, 1}

\* Mutant: the third test of the chain is sector == 'Healthtech' alone.
SectorRangesHealthtechOnly(sector) ==
    IF sector = "AI/ML"
      THEN [v |-> <<100, 30000>>, a |-> <<7000, 9500>>, g |-> <<20000, 200000>>]
    ELSE IF sector = "Fintech"
      THEN [v |-> <<100, 15000>>, a |-> <<4000, 8000>>, g |-> <<10000, 80000>>]
    ELSE IF sector = "Healthtech"
      THEN [v |-> <<50, 10000>>, a |-> <<6000, 9000>>, g |-> <<8000, 50000>>]
    ELSE IF sector = "E-commerce"
      THEN [v |-> <<100, 20000>>, a |-> <<3000, 7000>>, g |-> <<15000, 100000>>]
    ELSE [v |-> <<50, 8000>>, a |-> <<2000, 7000>>, g |-> <<5000, 40000>>]

\* The three uniform ranges (lo, hi) of a sector, in hundredths.
SectorRanges(sector) ==
    IF sector = "AI/ML"
      THEN [v |-> <<100, 30000>>, a |-> <<7000, 9500>>, g |-> <<20000, 200000>>]
    ELSE IF sector = "Fintech"
      THEN [v |-> <<100, 15000>>, a |-> <<4000, 8000>>, g |-> <<10000, 80000>>]
    ELSE IF sector = "Healthtech" \/ sector = "Biotech"
      THEN [v |-> <<50, 10000>>, a |-> <<6000, 9000>>, g |-> <<8000, 50000>>]
    ELSE IF sector = "E-commerce"
      THEN [v |-> <<100, 20000>>, a |-> <<3000, 7000>>, g |-> <<15000, 100000>>]
    ELSE [v |-> <<50, 8000>>, a |-> <<2000, 7000>>, g |-> <<5000, 40000>>]

DecacornFloor  == 1000    \* max(10.0, valuation_base)
HectocornFloor == 10000   \* max(100.0, valuation_base)
SoonicornCap   == 100     \* min(1.0, valuation_base)

\* Mutant: the elif branch of 'Soonicorn' is missing.
StatusClampNoSoonicorn(status, valuation_base) ==
    IF status = "Decacorn" THEN Max(DecacornFloor, valuation_base)
    ELSE IF status = "Hectocorn" THEN Max(HectocornFloor, valuation_base)
    ELSE valuation_base

\* "Adjust based on status"
StatusClamp(status, valuation_base) ==
    IF status = "Decacorn" THEN Max(DecacornFloor, valuation_base)
    ELSE IF status = "Hectocorn" THEN Max(HectocornFloor, valuation_base)
    ELSE IF status = "Soonicorn" THEN Min(SoonicornCap, valuation_base)
    ELSE valuation_base

FactorLo == 80     \* random.uniform(0.8, 1.2), in hundredths
FactorHi == 120
JitterLo == -1000  \* random.uniform(-10, 10), in hundredths
JitterHi == 1000
ImpactMin == 100   \* max(1, ...)
ImpactMax == 9500  \* min(95, ...)

\* One iteration's random draws.  The three base draws share one quantile and
\* the two jitter draws share one quantile (a restriction of the inputs that
\* keeps the state space small; every range is still visited at both ends).
IterationDraws ==
    [sector : SectorDraws, status : StatusDraws, qb : Quantiles, qj : Quantiles]

\* The draws of the first iteration range over the whole catalog of sectors.
FirstDraws ==
    [sector : { sectors[i] : i \in 1..Len(sectors) }, status : StatusDraws,
     qb : Quantiles, qj : Quantiles]

\* The draws of the later iterations of a short run: as IterationDraws, with
\* one quantile for all the uniform draws of the iteration.
LaterDraws == { d \in IterationDraws : d.qb = d.qj }

\* The j-th combination of draws in a fixed enumeration of all of them.
DrawAt(j) ==
    [ sector |-> sectors[(j % 16) + 1],
      status |-> statuses[((j \div 16) % 4) + 1],
      qb     |-> (j \div 64) % 2,
      qj     |-> (j \div 128) % 2 ]

\* The sequences of draws considered for a run of n iterations: every
\* combination for n <= MaxGen; for a longer run MaxPatterns sequences that
\* walk through all the combinations of draws.
DrawSequences(n) ==
    IF n <= MaxGen
      THEN IF n = 0 THEN { << >> }
           ELSE { <<d>> \o t : d \in FirstDraws, t \in [1..(n - 1) -> LaterDraws] }
      ELSE { [i \in 1..n |-> DrawAt((o + 7 * i) % 256)] : o \in 0..(MaxPatterns - 1) }

\* The locals of iteration i after "Add realistic correlations".
IterationLocals(d) ==
    LET rg == SectorRanges(d.sector)
    IN [ sector |-> d.sector,
         status |-> d.status,
         valuation_draw |-> uniform(rg.v[1], rg.v[2], d.qb),
         valuation_base |-> StatusClamp(d.status, uniform(rg.v[1], rg.v[2], d.qb)),
         ai_impact_base |-> uniform(rg.a[1], rg.a[2], d.qb),
         growth_base |-> uniform(rg.g[1], rg.g[2], d.qb),
         correlation_factor |-> uniform(FactorLo, FactorHi, d.qj),
         impact_jitter |-> uniform(JitterLo, JitterHi, d.qj) ]

\* Mutant: the impact score is not clamped.
ImpactScoreUnclamped(ai_impact_base, jitter) == ai_impact_base + jitter

\* 'AI Impact Score': min(95, max(1, ai_impact_base + random.uniform(-10, 10)))
ImpactScore(ai_impact_base, jitter) ==
    Min(ImpactMax, Max(ImpactMin, ai_impact_base + jitter))

\* base * correlation_factor, in hundredths (the factor is in hundredths too).
MulFactor(base, factor) == (base * factor) \div 100

\* Mutant: the growth rate is scaled by a draw of its own.
GrowthFactorOwnDraw(l) == FactorLo + FactorHi - l.correlation_factor

\* The factor 'Growth Rate (%)' is multiplied by: the same correlation_factor.
GrowthFactor(l) == l.correlation_factor

\* The dict appended for iteration i (0-based), from its locals l.
\* 'Country', 'Founded Year', 'longitude' and 'latitude' are independent draws
\* that nothing downstream computes with; they are left out of the record.
GeneratedRecord(i, l) ==
    [ c \in {COMPANY, VALUATION, IMPACT, GROWTH, SECTOR, STATUS} |->
        CASE c = COMPANY   -> <<l.sector, "Startup", i + 1>>
          [] c = VALUATION -> MulFactor(l.valuation_base, l.correlation_factor)
          [] c = IMPACT    -> ImpactScore(l.ai_impact_base, l.impact_jitter)
          [] c = GROWTH    -> MulFactor(l.growth_base, GrowthFactor(l))
          [] c = SECTOR    -> l.sector
          [] c = STATUS    -> l.status ]

\* Mutant: the loop runs over range(1, size).
LoopCountFromOne(size) == IF size > 1 THEN size - 1 ELSE 0

\* for i in range(size): ... large_dataset.append({...})
LoopCount(size) == IF size > 0 THEN size ELSE 0

\* generate_large_realistic_dataset(size): the whole call.  With an integer
\* size nothing in the try block raises, so the except branch (which would
\* read the database through get_unicorn_data) is not taken.
generate_large_realistic_dataset(size) ==
    /\ ~gen_call.called
    /\ \E draws \in DrawSequences(LoopCount(size)) :
         LET ls == [i \in 1..LoopCount(size) |-> IterationLocals(draws[i])]
         IN /\ gen_call' = [called |-> TRUE, raised |-> FALSE, size |-> size, locals |-> ls]
            /\ large_dataset' = [i \in 1..LoopCount(size) |-> GeneratedRecord(i - 1, ls[i])]
    /\ UNCHANGED external_reads
    /\ UNCHANGED <<engineVars, sampleVars, fetchVars, pairVars, appVars>>

\* get_unicorn_data() when the database is empty and no JSON file exists: the
\* hard-coded fallback list.
FallbackUnicorns ==
    << [ c \in {COMPANY, VALUATION, IMPACT, GROWTH, SECTOR, STATUS} |->
           CASE c = COMPANY -> "OpenAI" [] c = VALUATION -> 15700
             [] c = IMPACT -> 9500 [] c = GROWTH -> 18000
             [] c = SECTOR -> "AI/ML" [] c = STATUS -> "Unicorn" ],
       [ c \in {COMPANY, VALUATION, IMPACT, GROWTH, SECTOR, STATUS} |->
           CASE c = COMPANY -> "Anthropic" [] c = VALUATION -> 4150
             [] c = IMPACT -> 8800 [] c = GROWTH -> 22000
             [] c = SECTOR -> "AI/ML" [] c = STATUS -> "Unicorn" ] >>

\* generate_large_realistic_dataset(size) with a size range() rejects (None, a
\* float, a string): TypeError, caught, and the result is get_unicorn_data(),
\* which queries the database and opens the JSON files.
generate_large_realistic_dataset_except ==
    /\ ~gen_call.called
    /\ gen_call' = [called |-> TRUE, raised |-> TRUE, size |-> 0, locals |-> << >>]
    /\ large_dataset' = FallbackUnicorns
    /\ external_reads' = external_reads + 1
    /\ UNCHANGED <<engineVars, sampleVars, fetchVars, pairVars, appVars>>

SizeInputs == (-1)..MaxGen

(***************************************************************************)
(* pandas / numpy as the layout engines use them.                          *)
(*                                                                         *)
(* A DataFrame is [columns, index, rows]: the set of column names, the     *)
(* sequence of index labels and the sequence of rows.  A row is a function *)
(* from the columns it has a value for; a column of df.columns outside the *)
(* row's domain is a NaN cell (pd.DataFrame of a list of dicts leaves NaN  *)
(* where a dict lacks a key another dict has).                             *)
(***************************************************************************)
NaN == << >>
IsNaN(x) == x = << >>
Num(v) == <<v>>
Val(x) == x[1]

Range(f) == { f[i] : i \in DOMAIN f }

UnionAll(S) == UNION S

\* pd.DataFrame(data) for a list of dicts.
DataFrame(items) ==
    [ columns |-> UnionAll({ DOMAIN items[i] : i \in 1..Len(items) }),
      index   |-> [i \in 1..Len(items) |-> i - 1],
      rows    |-> items ]

Cell(row, col) == IF col \in DOMAIN row THEN Num(row[col]) ELSE NaN

\* Series.min() / Series.max(): NaN cells are skipped; NaN when none is left.
ColumnValues(frame, col) ==
    { frame.rows[i][col] : i \in { j \in 1..Len(frame.rows) : col \in DOMAIN frame.rows[j] } }

SetMin(S) == CHOOSE x \in S : \A y \in S : x <= y
SetMax(S) == CHOOSE x \in S : \A y \in S : x >= y

ColumnMin(frame, col) ==
    LET S == ColumnValues(frame, col) IN IF S = {} THEN NaN ELSE Num(SetMin(S))

ColumnMax(frame, col) ==
    LET S == ColumnValues(frame, col) IN IF S = {} THEN NaN ELSE Num(SetMax(S))

RECURSIVE GCD(_, _)
GCD(a, b) == IF b = 0 THEN a ELSE GCD(b, a % b)

Seed == 42   \* random_state=42, np.random.seed(42)

\* RandomState(42).permutation(n), which DataFrame.sample(n=k, random_state=42)
\* takes the first k positions of.  The Mersenne Twister shuffle is replaced by
\* a fixed stand-in with the properties the engines rely on: it is a function
\* of n alone, it is a bijection on 0..n-1, and it is not the identity.
Multiplier(n) == CHOOSE m \in Seed..(Seed + n) : GCD(m, n) = 1 /\ \A k \in Seed..(m - 1) : GCD(k, n) # 1

\* Mutant: positions drawn with replacement (replace=True), so that a position
\* can be drawn twice.
PermutationWithReplacement(n) ==
    [k \in 1..n |-> (k * k + Seed) % n]

Permutation(n) ==
    LET m == Multiplier(n) IN [k \in 1..n |-> (m * k + Seed) % n]

\* df.sample(n=size, random_state=42): without replacement (replace=False is
\* the default); the result keeps the drawn order and the original index labels.
SampleFrame(frame, size) ==
    LET locs == Permutation(Len(frame.index))
    IN [ columns |-> frame.columns,
         index   |-> [k \in 1..size |-> frame.index[locs[k] + 1]],
         rows    |-> [k \in 1..size |-> frame.rows[locs[k] + 1]] ]

\* "Performance optimization for large datasets":
\*     if len(df) > cap: df = df.sample(n=cap, random_state=42)
\* Mutant: the test is len(df) >= cap.
NeedsSampleAtCap(len, cap) == len >= cap

NeedsSample(len, cap) == len > cap

Downsample(frame, cap) ==
    IF NeedsSample(Len(frame.index), cap) THEN SampleFrame(frame, cap) ELSE frame

\* np.random, the global generator.  Its state is a number in 0..RngStates-1;
\* drawing n values advances it by n, and the k-th value drawn from state s
\* is the fraction ((s + k) % RngStates) / RngStates of the requested range.
RngAdvance(s, n) == (s + n) % RngStates

RngUnit(s, k) == (s + k) % RngStates

\* np.random.uniform(lo, hi, n) drawn in state s.
NpUniform(lo, hi, n, s) ==
    [k \in 1..n |-> lo + ((hi - lo) * RngUnit(s, k - 1)) \div RngStates]

\* Mutant: the np.random.seed(42) line is missing.
UnseededState(s) == s

\* np.random.seed(42): the state no longer depends on what was drawn before.
SeededState(s) == Seed % RngStates

\* if col not in df.columns: df[col] = np.random.uniform(lo, hi, len(df))
\* on the pair st = [frame, rng].
FillColumn(st, col, lo, hi) ==
    IF col \in st.frame.columns
      THEN st
      ELSE LET n == Len(st.frame.rows)
               u == NpUniform(lo, hi, n, st.rng)
           IN [ frame |-> [ columns |-> st.frame.columns \cup {col},
                            index   |-> st.frame.index,
                            rows    |-> [k \in 1..n |->
                                          [c \in DOMAIN st.frame.rows[k] \cup {col} |->
                                             IF c = col THEN u[k] ELSE st.frame.rows[k][c]]] ],
                rng   |-> RngAdvance(st.rng, n) ]

GrowthFillLo == 5000       \* np.random.uniform(50, 200, len(df))
GrowthFillHi == 20000
ValuationFillLo == 100     \* np.random.uniform(1, 50, len(df))
ValuationFillHi == 5000
ImpactFillLo == 2000       \* np.random.uniform(20, 90, len(df))
ImpactFillHi == 9000

FillGrowth(st)    == FillColumn(st, GROWTH, GrowthFillLo, GrowthFillHi)
FillValuation(st) == FillColumn(st, VALUATION, ValuationFillLo, ValuationFillHi)
FillImpact(st)    == FillColumn(st, IMPACT, ImpactFillLo, ImpactFillHi)

\* "if not data": None and the empty list are falsy.
Falsy(d) ==
    \/ d.kind = "None"
    \/ d.kind = "list" /\ Len(d.items) = 0
    \/ d.kind = "scalar" /\ ~d.truthy

\* A value that is no list: a number or a string, which is falsy (0, "") or
\* truthy.
Scalar(truthy) == [kind |-> "scalar", truthy |-> truthy]

\* The list of the records items with the valuation and the growth rate of
\* its first record given as text.
TextList(items) == [kind |-> "textlist", items |-> items]

\* What the try block raises on a truthy value: pd.DataFrame(<number or
\* string>) raises ValueError; the arithmetic on a column that holds text
\* (growth_norm, x_max - x_min, the normalisations, the spiral's z) raises
\* TypeError.
BodyRaises(d) == d.kind = "scalar" \/ d.kind = "textlist"

\* Mutant: the except branch returns go.Figure() without adding the marker.
ErrorFigureNoTrace(engine, title) ==
    [ kind |-> "error", engine |-> engine, title |-> title,
      x |-> << >>, y |-> << >>, z |-> << >> ]

\* The except branch of every engine: one marker at the origin.
ErrorFigure(engine, title) ==
    [ kind |-> "error", engine |-> engine, title |-> title,
      x |-> <<0>>, y |-> <<0>>, z |-> <<0>> ]

\* Mutant: the exception leaves the engine.
Uncaught(engine, title) == [kind |-> "raise", engine |-> engine]

\* except Exception as e: print(...); fig = go.Figure(); fig.add_trace(...);
\* fig.update_layout(title=...); return fig
Caught(engine, title) == ErrorFigure(engine, title)

\* Mutant: np.linspace(0, stop, n, endpoint=False).
LinspaceNoEndpoint(stop, n, k) == <<stop * k, n>>

\* go.Scatter3d(marker=dict(size=<array>)): plotly validates marker.size as
\* numbers >= 0 and raises ValueError ("Invalid element(s) received for the
\* 'size' property") when an element is NaN.
InvalidMarkerSize(points) == \E k \in 1..Len(points) : IsNaN(points[k].size)

\* np.linspace(0, stop, n)[k] (k 0-based) as the fraction <<num, den>>:
\* stop * k / (n - 1), and 0 for n = 1.
Linspace(stop, n, k) == IF n = 1 THEN <<0, 1>> ELSE <<stop * k, n - 1>>

\* f"{row.get('Company', f'Company {i}')}..." plus the three numeric cells.
HoverText(frame, row, i) ==
    << IF COMPANY \in frame.columns THEN Cell(row, COMPANY) ELSE Num(<<"Company", i>>),
       Cell(row, VALUATION), Cell(row, IMPACT), Cell(row, GROWTH) >>

\* (g - min) / (max - min + 1e-9) for one cell g, as the fraction
\* <<g - min, max - min>> (the 1e-9 of the denominator is implied); NaN for a
\* NaN cell.  gmin and gmax are the column's min() and max().
GrowthNorm(g, gmin, gmax) ==
    IF IsNaN(g) THEN NaN ELSE Num(<<Val(g) - Val(gmin), Val(gmax) - Val(gmin)>>)

(***************************************************************************)
(* visualizations/spiral_tunnel.py                                         *)
(***************************************************************************)
SpiralTunnelCap == 1000
TunnelHeight == 100     \* z = np.linspace(0, 100, num_points)
TunnelTurns == 6        \* theta = np.linspace(0, num_turns * 2 * np.pi, num_points)

\* The frame after the sampling and the default fills.
SpiralTunnelFrame(d, s) ==
    FillImpact(FillValuation(FillGrowth(
        [frame |-> Downsample(DataFrame(d.items), SpiralTunnelCap), rng |-> s])))

\* The Scatter3d trace: point k (1-based) carries z, theta (in units of pi),
\* growth_norm (r = 40 + 20 * growth_norm, x = r cos theta, y = r sin theta)
\* and its hover text, all taken from row k of the frame.
SpiralTunnelPoints(frame) ==
    LET n == Len(frame.rows)
        gmin == ColumnMin(frame, GROWTH)
        gmax == ColumnMax(frame, GROWTH)
    IN [k \in 1..n |->
         [ z     |-> Linspace(TunnelHeight, n, k - 1),
           theta |-> Linspace(TunnelTurns * 2, n, k - 1),
           growth_norm |-> GrowthNorm(Cell(frame.rows[k], GROWTH), gmin, gmax),
           text  |-> HoverText(frame, frame.rows[k], k - 1) ]]

\* create_spiral_tunnel_visualization(data) called with np.random in state s:
\* the figure returned, the frame it worked on and the state of np.random.
SpiralTunnel(d, s) ==
    IF Falsy(d) \/ BodyRaises(d)
      THEN [ fig |-> Caught("spiral_tunnel", "Error in Spiral Tunnel Visualization"),
             frame |-> NoFrame, rng |-> s ]
      ELSE LET st == SpiralTunnelFrame(d, s)
           IN [ fig |-> [ kind |-> "scene", engine |-> "spiral_tunnel",
                          title |-> "Unicorn Companies Tunnel Spiral Spectrum",
                          points |-> SpiralTunnelPoints(st.frame) ],
                frame |-> st.frame, rng |-> st.rng ]


(***************************************************************************)
(* visualizations/geolocation_bubble.py                                    *)
(***************************************************************************)
GeolocationCap == 2000
SpiralTurnsPi == 6        \* t = np.linspace(0, 6*np.pi, n_points)
HeightMilli == 500        \* height_multiplier = 0.5, in thousandths
MinSize == 800            \* min_size = 8, in hundredths
MaxSize == 4000           \* max_size = 40, in hundredths

RECURSIVE Ascending(_)
Ascending(S) ==
    IF S = {} THEN << >> ELSE <<SetMin(S)>> \o Ascending(S \ {SetMin(S)})

RECURSIVE Descending(_)
Descending(S) ==
    IF S = {} THEN << >> ELSE <<SetMax(S)>> \o Descending(S \ {SetMax(S)})

\* The order in which sort_values(col, ascending=True) visits the distinct
\* values of the column.
SortOrder(S) == Ascending(S)

RECURSIVE GatherByValue(_, _, _, _)
GatherByValue(frame, col, order, j) ==
    IF j > Len(order) THEN << >>
    ELSE SelectSeq([i \in 1..Len(frame.rows) |-> i],
                   LAMBDA i : Cell(frame.rows[i], col) = Num(order[j]))
         \o GatherByValue(frame, col, order, j + 1)

\* df.sort_values(col, ascending=True).reset_index(drop=True): rows by
\* ascending value, NaN cells last (na_position='last'), labels renumbered
\* from 0.  Rows of equal value keep their frame order here; pandas' default
\* quicksort leaves their order unspecified.
SortValues(frame, col) ==
    LET n == Len(frame.rows)
        pos == GatherByValue(frame, col, SortOrder(ColumnValues(frame, col)), 1)
               \o SelectSeq([i \in 1..n |-> i], LAMBDA i : IsNaN(Cell(frame.rows[i], col)))
    IN [ columns |-> frame.columns,
         index   |-> [k \in 1..n |-> k - 1],
         rows    |-> [k \in 1..n |-> frame.rows[pos[k]]] ]

Clip(v, lo, hi) == IF v < lo THEN lo ELSE IF v > hi THEN hi ELSE v

\* z = height_multiplier * i + row['Valuation ($B)'] * 0.1, in thousandths
\* (a valuation in hundredths, times 0.1, is that many thousandths).
SpiralZ(i, valuation) ==
    IF IsNaN(valuation) THEN NaN ELSE Num(HeightMilli * i + Val(valuation))

\* (df_sorted['Valuation ($B)'] * 1.2 + min_size).clip(min_size, max_size)
BubbleSize(valuation) ==
    IF IsNaN(valuation) THEN NaN
    ELSE Num(Clip((Val(valuation) * 12) \div 10 + MinSize, MinSize, MaxSize))

\* The frame after the sampling and the default fills (no growth-rate fill in
\* this engine).
GeolocationFrame(d, s) ==
    FillImpact(FillValuation(
        [frame |-> Downsample(DataFrame(d.items), GeolocationCap), rng |-> s]))

\* The main Scatter3d trace: point i (0-based) of df_sorted has angle
\* t (in units of pi), radius 2 + 0.3 * i/n * 8 (kept as the fraction <<i, n>>),
\* z, marker size, marker colour and hover text.
GeolocationPoints(sorted) ==
    LET n == Len(sorted.rows)
    IN [k \in 1..n |->
         [ t      |-> Linspace(SpiralTurnsPi, n, k - 1),
           radius |-> <<k - 1, n>>,
           z      |-> SpiralZ(k - 1, Cell(sorted.rows[k], VALUATION)),
           size   |-> BubbleSize(Cell(sorted.rows[k], VALUATION)),
           color  |-> Cell(sorted.rows[k], IMPACT),
           text   |-> HoverText(sorted, sorted.rows[k], sorted.index[k]) ]]

\* create_geolocation_visualization(data) called with np.random in state s.
Geolocation(d, s) ==
    IF Falsy(d) \/ BodyRaises(d)
      THEN [ fig |-> Caught("geolocation", "Error in Spiraling Tsunami Visualization"),
             frame |-> NoFrame, rng |-> s ]
      ELSE LET st == GeolocationFrame(d, s)
               df_sorted == SortValues(st.frame, VALUATION)
               pts == GeolocationPoints(df_sorted)
           IN IF InvalidMarkerSize(pts)
                THEN [ fig |-> Caught("geolocation", "Error in Spiraling Tsunami Visualization"),
                       frame |-> st.frame, rng |-> st.rng ]
                ELSE [ fig |-> [ kind |-> "scene", engine |-> "geolocation",
                                 title |-> "3D AI Startup Growth Tsunami",
                                 points |-> pts ],
                       frame |-> st.frame, rng |-> st.rng ]

(***************************************************************************)
(* visualizations/ripple_bubbles.py                                        *)
(***************************************************************************)
RippleCap == 800
NumFrames == 60           \* num_frames = 60
RippleSizeLo == 600       \* np.clip(valuation * 0.7, 6, 30), in hundredths
RippleSizeHi == 3000

RippleFrame(d, s) ==
    FillImpact(FillValuation(FillGrowth(
        [frame |-> Downsample(DataFrame(d.items), RippleCap), rng |-> s])))

RippleSize(valuation) ==
    IF IsNaN(valuation) THEN NaN
    ELSE Num(Clip((Val(valuation) * 7) \div 10, RippleSizeLo, RippleSizeHi))

\* The base trace.  bubble_x, bubble_y, bubble_z are three successive
\* np.random.uniform(0, 1, n) draws made right after np.random.seed(42); a
\* coordinate is kept as the numerator of its fraction of RngStates.
RipplePoints(frame, s0) ==
    LET n == Len(frame.rows)
    IN [k \in 1..n |->
         [ x     |-> RngUnit(s0, k - 1),
           y     |-> RngUnit(s0, n + k - 1),
           z     |-> RngUnit(s0, 2 * n + k - 1),
           size  |-> RippleSize(Cell(frame.rows[k], VALUATION)),
           color |-> Cell(frame.rows[k], IMPACT),
           text  |-> HoverText(frame, frame.rows[k], k - 1) ]]

\* Mutant: the frame loop uses enumerate(), so that i is the row's position.
RipplePhasePosition(frame) == [k \in 1..Len(frame.index) |-> k - 1]

\* for i, row in unicorn_df.iterrows(): the i of the frame loop is the row's
\* index label.  Frame f puts point k at
\*     z = 0.5 + 0.4 * sin(2 * pi * f / num_frames + i * 0.2)
\* with the x and y of the base trace; the frames are kept as num_frames and
\* the sequence of the i used for each point.
RipplePhaseIndex(frame) == frame.index

\* Mutant: every frame draws its own x and y.
RippleFramesRedrawn(frame, pts) ==
    [f \in 1..NumFrames |->
       [ x |-> [k \in 1..Len(pts) |-> pts[k].x + f],
         y |-> [k \in 1..Len(pts) |-> pts[k].y + f],
         z |-> [k \in 1..Len(pts) |-> <<f - 1, frame.index[k]>>] ]]

\* fig.frames: frame number f (0-based) is a Scatter3d trace with the x and y
\* of the base trace and, for point k, z = 0.5 + 0.4 * sin(2 * pi * f /
\* num_frames + i * 0.2), kept as the pair <<f, i>>.
RippleFrames(frame, pts) ==
    LET xs == [k \in 1..Len(pts) |-> pts[k].x]
        ys == [k \in 1..Len(pts) |-> pts[k].y]
        phase == RipplePhaseIndex(frame)
    IN [f \in 1..NumFrames |->
          [ x |-> xs, y |-> ys,
            z |-> [k \in 1..Len(pts) |-> <<f - 1, phase[k]>>] ]]

\* create_ripple_bubbles_visualization(data) called with np.random in state s.
RippleBubbles(d, s) ==
    IF Falsy(d) \/ BodyRaises(d)
      THEN [ fig |-> Caught("ripple_bubbles", "Error in Ripple Bubbles Visualization"),
             frame |-> NoFrame, rng |-> s ]
      ELSE LET st == RippleFrame(d, s)
               s0 == SeededState(st.rng)
               n  == Len(st.frame.rows)
               pts == RipplePoints(st.frame, s0)
           IN IF InvalidMarkerSize(pts)
                THEN [ fig |-> Caught("ripple_bubbles", "Error in Ripple Bubbles Visualization"),
                       frame |-> st.frame, rng |-> RngAdvance(s0, 3 * n) ]
                ELSE [ fig |-> [ kind |-> "scene", engine |-> "ripple_bubbles",
                                 title |-> "3D Unicorn Companies Bubble Map",
                                 points |-> pts,
                                 num_frames |-> NumFrames,
                                 frame_i |-> RipplePhaseIndex(st.frame),
                                 frames |-> RippleFrames(st.frame, pts) ],
                       frame |-> st.frame, rng |-> RngAdvance(s0, 3 * n) ]

(***************************************************************************)
(* visualizations/undulating_wave.py                                       *)
(***************************************************************************)
UndulatingCap == 1200
GridSize == 50            \* grid_size = 50

UndulatingFrame(d, s) ==
    FillImpact(FillValuation(FillGrowth(
        [frame |-> Downsample(DataFrame(d.items), UndulatingCap), rng |-> s])))

\* x_pad = (x_max - x_min) * 0.1
Pad(lo, hi) == (hi - lo) \div 10

\* The grid range: x over valuation, y over growth rate, each padded.
UndulatingBounds(frame) ==
    LET x_min == Val(ColumnMin(frame, VALUATION))
        x_max == Val(ColumnMax(frame, VALUATION))
        y_min == Val(ColumnMin(frame, GROWTH))
        y_max == Val(ColumnMax(frame, GROWTH))
    IN [ x_min |-> x_min, x_max |-> x_max, y_min |-> y_min, y_max |-> y_max,
         x_lo |-> x_min - Pad(x_min, x_max), x_hi |-> x_max + Pad(x_min, x_max),
         y_lo |-> y_min - Pad(y_min, y_max), y_hi |-> y_max + Pad(y_min, y_max) ]

\* np.linspace(lo, hi, n)[i] (i 0-based, n > 1) as the fraction <<num, den>>.
GridNode(lo, hi, n, i) == <<(n - 1) * lo + i * (hi - lo), n - 1>>

\* p1/q1 < p2/q2 for p >= 0, q > 0, by the Euclidean algorithm (no products).
RECURSIVE FracLess(_, _, _, _)
FracLess(p1, q1, p2, q2) ==
    IF p1 \div q1 # p2 \div q2 THEN p1 \div q1 < p2 \div q2
    ELSE IF p2 % q2 = 0 THEN FALSE
    ELSE IF p1 % q1 = 0 THEN TRUE
    ELSE FracLess(q2, p2 % q2, q1, p1 % q1)

\* (c - c_min)/(c_max - c_min + 1e-9) ** 2 for a coordinate c = <<num, den>>.
\* In Python ** binds tighter than /, so the square is that of the
\* denominator: the term is (c - c_min) / (range + 1e-9)^2, kept as the
\* difference num/den (in hundredths) and the range (in hundredths).
WaveTerm(c, c_min, c_max) ==
    [ num |-> c[1] - c_min * c[2], den |-> c[2], range |-> c_max - c_min ]

\* Numbers beyond 32 bits: a natural number as its digits to the base 1000,
\* the least significant first.
RECURSIVE Limbs(_)
Limbs(n) == IF n < 1000 THEN <<n>> ELSE <<n % 1000>> \o Limbs(n \div 1000)

\* L * m + carry, for m up to 2000000
RECURSIVE LimbsTimes(_, _, _)
LimbsTimes(L, m, carry) ==
    IF L = << >> THEN (IF carry = 0 THEN << >> ELSE Limbs(carry))
    ELSE LET v == Head(L) * m + carry
         IN <<v % 1000>> \o LimbsTimes(Tail(L), m, v \div 1000)

\* A < B
RECURSIVE LimbsLess(_, _)
LimbsLess(A, B) ==
    IF A = << >> /\ B = << >> THEN FALSE
    ELSE LET ha == IF A = << >> THEN 0 ELSE Head(A)
             hb == IF B = << >> THEN 0 ELSE Head(B)
             ta == IF A = << >> THEN << >> ELSE Tail(A)
             tb == IF B = << >> THEN << >> ELSE Tail(B)
         IN IF LimbsLess(ta, tb) THEN TRUE
            ELSE IF LimbsLess(tb, ta) THEN FALSE
            ELSE ha < hb

\* The argument of np.sqrt is below zero: tx + ty < 0 for two terms over the
\* same den.  A range of 0 stands for the 1e-9 of the denominator.
RadicandNegative(tx, ty) ==
    IF tx.num >= 0 /\ ty.num >= 0 THEN FALSE
    ELSE IF tx.num <= 0 /\ ty.num <= 0 THEN TRUE
    ELSE LET pos == IF tx.num > 0 THEN tx ELSE ty
             neg == IF tx.num > 0 THEN ty ELSE tx
         IN IF neg.range = 0 THEN pos.range # 0 \/ -neg.num > pos.num
            ELSE IF pos.range = 0 THEN FALSE
            ELSE IF pos.range <= 46340 /\ neg.range <= 46340
              THEN FracLess(pos.num, pos.range * pos.range, -neg.num, neg.range * neg.range)
            ELSE LimbsLess(
                   LimbsTimes(LimbsTimes(Limbs(pos.num), neg.range, 0), neg.range, 0),
                   LimbsTimes(LimbsTimes(Limbs(-neg.num), pos.range, 0), pos.range, 0))

\* np.sin(10 * np.sqrt(tx + ty)): NaN where the argument of the square root
\* is negative, else the sine of it, kept as the numerators of the two terms
\* (their den and ranges are those of the coordinates and of the bounds).
WaveHeight(tx, ty) ==
    IF RadicandNegative(tx, ty) THEN NaN ELSE Num(<<tx.num, ty.num>>)

\* The go.Surface trace: x and y are np.linspace over the padded ranges and
\* z[j][i] is the wave formula at (x[i], y[j]) (np.meshgrid).  The 50 x 50
\* array z is kept as the term of every column (tx) and of every row (ty)
\* and the set nan of the nodes <<i, j>> where z is NaN.
UndulatingSurface(b) ==
    LET x == [i \in 1..GridSize |-> GridNode(b.x_lo, b.x_hi, GridSize, i - 1)]
        y == [j \in 1..GridSize |-> GridNode(b.y_lo, b.y_hi, GridSize, j - 1)]
        tx == [i \in 1..GridSize |-> WaveTerm(x[i], b.x_min, b.x_max)]
        ty == [j \in 1..GridSize |-> WaveTerm(y[j], b.y_min, b.y_max)]
    IN [ x |-> x, y |-> y, tx |-> tx, ty |-> ty,
         nan |-> { n \in (1..GridSize) \X (1..GridSize) :
                     IsNaN(WaveHeight(tx[n[1]], ty[n[2]])) } ]

\* z[j][i] of the surface (i, j 1-based).
SurfaceZ(surface, i, j) ==
    IF <<i, j>> \in surface.nan THEN NaN
    ELSE Num(<<surface.tx[i].num, surface.ty[j].num>>)

\* Mutant: every marker sits at its record's own valuation and growth rate.
UndulatingPointsAtRecords(frame, b, s0) ==
    [k \in 1..Len(frame.rows) |->
       LET v == Cell(frame.rows[k], VALUATION)
           g == Cell(frame.rows[k], GROWTH)
       IN [ x |-> v, y |-> g,
            z |-> IF IsNaN(v) \/ IsNaN(g) THEN NaN
                  ELSE WaveHeight(WaveTerm(<<Val(v), 1>>, b.x_min, b.x_max),
                                  WaveTerm(<<Val(g), 1>>, b.y_min, b.y_max)),
            text |-> HoverText(frame, frame.rows[k], k - 1) ]]

\* The company markers: company_x and company_y are two successive
\* np.random.uniform draws over the padded range, made right after
\* np.random.seed(42); company_z is the wave formula at (company_x, company_y).
UndulatingPoints(frame, b, s0) ==
    LET n == Len(frame.rows)
        cx == NpUniform(b.x_lo, b.x_hi, n, s0)
        cy == NpUniform(b.y_lo, b.y_hi, n, RngAdvance(s0, n))
    IN [k \in 1..n |->
         [ x |-> cx[k], y |-> cy[k],
           z |-> WaveHeight(WaveTerm(<<cx[k], 1>>, b.x_min, b.x_max),
                            WaveTerm(<<cy[k], 1>>, b.y_min, b.y_max)),
           text |-> HoverText(frame, frame.rows[k], k - 1) ]]

\* create_undulating_wave_visualization(data) called with np.random in state s.
UndulatingWave(d, s) ==
    IF Falsy(d) \/ BodyRaises(d)
      THEN [ fig |-> Caught("undulating_wave", "Error in Undulating Wave Visualization"),
             frame |-> NoFrame, rng |-> s ]
      ELSE LET st == UndulatingFrame(d, s)
               b  == UndulatingBounds(st.frame)
               s0 == SeededState(st.rng)
               n  == Len(st.frame.rows)
           IN [ fig |-> [ kind |-> "scene", engine |-> "undulating_wave",
                          title |-> "Undulating Wave Surface with Multiple Oscillations",
                          grid_size |-> GridSize,
                          bounds |-> b,
                          surface |-> UndulatingSurface(b),
                          points |-> UndulatingPoints(st.frame, b, s0) ],
                frame |-> st.frame, rng |-> RngAdvance(s0, 2 * n) ]

(***************************************************************************)
(* visualizations/wave_surface.py                                          *)
(***************************************************************************)
WaveSurfaceCap == 1500
WaveGrid == 100           \* num_points = 100
MarkerLift == 50          \* z = df['AI Impact Score'] + 0.5, in hundredths

WaveSurfaceFrame(d, s) ==
    FillImpact(FillValuation(FillGrowth(
        [frame |-> Downsample(DataFrame(d.items), WaveSurfaceCap), rng |-> s])))

\* twice the signed area of the triangle p q r
Cross(p, q, r) == (q[1] - p[1]) * (r[2] - p[2]) - (q[2] - p[2]) * (r[1] - p[1])

\* griddata(points, values, (XI, YI), method='cubic') triangulates the points
\* (scipy.spatial.Delaunay, Qhull).  It raises when a coordinate is NaN
\* ("Points cannot contain NaN"), and Qhull raises QhullError when the points
\* do not contain three that are not on one line (fewer than three points,
\* coincident or collinear points: "initial simplex is flat").
GriddataRaises(frame) ==
    LET n == Len(frame.rows)
        P == { <<frame.rows[i][GROWTH], frame.rows[i][VALUATION]>> :
                 i \in { j \in 1..n : GROWTH \in DOMAIN frame.rows[j]
                                        /\ VALUATION \in DOMAIN frame.rows[j] } }
    IN \/ \E i \in 1..n : IsNaN(Cell(frame.rows[i], GROWTH)) \/ IsNaN(Cell(frame.rows[i], VALUATION))
       \/ Cardinality(P) < 3
       \/ LET p == CHOOSE a \in P : TRUE
              q == CHOOSE a \in P \ {p} : TRUE
          IN \A r \in P : Cross(p, q, r) = 0

Abs(v) == IF v < 0 THEN -v ELSE v
Sign(v) == IF v < 0 THEN -1 ELSE IF v = 0 THEN 0 ELSE 1

\* a * b <= c * d, decided without forming the products.
ProdLeq(a, b, c, d) ==
    LET s1 == Sign(a) * Sign(b)
        s2 == Sign(c) * Sign(d)
    IN IF s1 # s2 THEN s1 < s2
       ELSE IF s1 = 0 THEN TRUE
       ELSE IF s1 = 1 THEN ~FracLess(Abs(c), Abs(b), Abs(a), Abs(d))
       ELSE ~FracLess(Abs(a), Abs(d), Abs(c), Abs(b))

\* The edges of the convex hull of the data points, counter-clockwise: every
\* point is to the left of the edge or on the segment itself.
HullEdges(P) ==
    { e \in P \X P :
        /\ e[1] # e[2]
        /\ \A r \in P :
              LET p == e[1]
                  q == e[2]
                  \* Cross(p, q, r) <= 0 and >= 0
                  notLeft  == ProdLeq(q[1] - p[1], r[2] - p[2], q[2] - p[2], r[1] - p[1])
                  notRight == ProdLeq(q[2] - p[2], r[1] - p[1], q[1] - p[1], r[2] - p[2])
                  \* (r - p) . (r - q) <= 0: r lies between p and q
                  between  == ProdLeq(r[1] - p[1], r[1] - q[1], r[2] - p[2], q[2] - r[2])
              IN ~notLeft \/ (notRight /\ between) }

\* The grid node (nx[1]/nx[2], ny[1]/ny[2]) is to the left of the edge p q or
\* on it.
LeftOfEdge(p, q, nx, ny) ==
    ProdLeq(q[2] - p[2], nx[1] - nx[2] * p[1], q[1] - p[1], ny[1] - ny[2] * p[2])

\* Bounds, in hundredths, of np.sin(0.2 * X) at X = nx[1]/nx[2] hundredths:
\* the angle is X/500 rad, and the sine is not negative on [0, 3.14].
SinBounds(nx) ==
    IF 0 <= nx[1] /\ nx[1] <= 1570 * nx[2] THEN <<0, 100>> ELSE <<-100, 100>>

\* Bounds, in hundredths, of np.cos(0.1 * Y) at Y = ny[1]/ny[2] hundredths:
\* the angle is Y/1000 rad; cos >= cos(1) > 0.54 on [0, 1], cos >= 0 on
\* [0, 1.57].
CosBounds(ny) ==
    IF 0 <= ny[1] /\ ny[1] <= 1000 * ny[2] THEN <<54, 100>>
    ELSE IF 0 <= ny[1] /\ ny[1] <= 1570 * ny[2] THEN <<0, 100>>
    ELSE <<-100, 100>>

\* Bounds of wave_amplitude * (np.sin(wave_frequency_x * XI) +
\* np.cos(wave_frequency_y * YI)), wave_amplitude = 1.5, from bounds of the
\* sine and of the cosine.
WaveEffectBounds(sin, cos) ==
    << (3 * (sin[1] + cos[1])) \div 2, -((-3 * (sin[2] + cos[2])) \div 2) >>

\* What is known of ZI = griddata(points, values, (XI, YI), method='cubic')
\* inside the convex hull: the interpolant of equal values is that value
\* (bounds <<c, c>>); of other values nothing is assumed (<< >>).
InterpBounds(frame) ==
    LET n == Len(frame.rows)
    IN IF /\ \A k \in 1..n : IMPACT \in DOMAIN frame.rows[k]
          /\ \A k \in 1..n : frame.rows[k][IMPACT] = frame.rows[1][IMPACT]
         THEN <<frame.rows[1][IMPACT], frame.rows[1][IMPACT]>>
         ELSE << >>

\* np.nanmean(ZI_wave_effect): the mean over the nodes that are not NaN of
\* ZI + wave effect, as bounds <<lo, hi>>; << >> when nothing is known of ZI.
\* The nodes that are not NaN are among the nodes of the grid: the wave effect
\* is bounded over all columns xi and all rows yi.
NanMeanBounds(interp, xi, yi) ==
    IF interp = << >> THEN << >>
    ELSE LET n == Len(xi)
             sin == << SetMin({ SinBounds(xi[i])[1] : i \in 1..n }),
                       SetMax({ SinBounds(xi[i])[2] : i \in 1..n }) >>
             cos == << SetMin({ CosBounds(yi[j])[1] : j \in 1..n }),
                       SetMax({ CosBounds(yi[j])[2] : j \in 1..n }) >>
             w == WaveEffectBounds(sin, cos)
         IN <<interp[1] + w[1], interp[2] + w[2]>>

\* The go.Surface trace: a num_points x num_points grid over the ranges of
\* growth rate (x) and valuation (y).  ZI is NaN at the nodes outside the
\* convex hull of the data points (edges); ZI_wave_effect adds the wave
\* effect, and its NaN nodes are assigned fill = np.nanmean(ZI_wave_effect).
WaveSurfaceGrid(frame) ==
    LET n == Len(frame.rows)
        P == { <<frame.rows[k][GROWTH], frame.rows[k][VALUATION]>> : k \in 1..n }
        x_min == Val(ColumnMin(frame, GROWTH))
        x_max == Val(ColumnMax(frame, GROWTH))
        y_min == Val(ColumnMin(frame, VALUATION))
        y_max == Val(ColumnMax(frame, VALUATION))
        xi == [i \in 1..WaveGrid |-> GridNode(x_min, x_max, WaveGrid, i - 1)]
        yi == [j \in 1..WaveGrid |-> GridNode(y_min, y_max, WaveGrid, j - 1)]
        interp == InterpBounds(frame)
    IN [ xi |-> xi, yi |-> yi,
         edges |-> HullEdges(P),
         interp |-> interp,
         fill |-> NanMeanBounds(interp, xi, yi) ]

\* ZI[j][i] is not NaN: the node (xi[i], yi[j]) is inside the convex hull or
\* on its boundary.
Interpolable(surface, i, j) ==
    \A e \in surface.edges : LeftOfEdge(e[1], e[2], surface.xi[i], surface.yi[j])

\* The company markers: x = growth rate, y = valuation, z = impact + 0.5,
\* size = 8 + 12 * growth_norm, colour = impact.
WaveSurfacePoints(frame) ==
    LET n == Len(frame.rows)
        gmin == ColumnMin(frame, GROWTH)
        gmax == ColumnMax(frame, GROWTH)
    IN [k \in 1..n |->
         [ x |-> Cell(frame.rows[k], GROWTH),
           y |-> Cell(frame.rows[k], VALUATION),
           z |-> IF IsNaN(Cell(frame.rows[k], IMPACT)) THEN NaN
                 ELSE Num(frame.rows[k][IMPACT] + MarkerLift),
           growth_norm |-> GrowthNorm(Cell(frame.rows[k], GROWTH), gmin, gmax),
           color |-> Cell(frame.rows[k], IMPACT),
           text  |-> HoverText(frame, frame.rows[k], k - 1) ]]

\* create_wave_surface_visualization(data) called with np.random in state s.
WaveSurface(d, s) ==
    IF Falsy(d) \/ BodyRaises(d)
      THEN [ fig |-> Caught("wave_surface", "Error in Wave Surface Visualization"),
             frame |-> NoFrame, rng |-> s ]
      ELSE LET st == WaveSurfaceFrame(d, s)
           IN IF GriddataRaises(st.frame)
                THEN [ fig |-> Caught("wave_surface", "Error in Wave Surface Visualization"),
                       frame |-> st.frame, rng |-> st.rng ]
                ELSE [ fig |-> [ kind |-> "scene", engine |-> "wave_surface",
                                 title |-> "Unicorn Wave: Growth, Valuation & AI Impact",
                                 grid |-> WaveGrid,
                                 surface |-> WaveSurfaceGrid(st.frame),
                                 points |-> WaveSurfacePoints(st.frame) ],
                       frame |-> st.frame, rng |-> st.rng ]

(***************************************************************************)
(* Initial values of the three groups of variables.                        *)
(***************************************************************************)
EngineIdle ==
    /\ data = None
    /\ df = NoFrame
    /\ fig = NoFig
    /\ rng_before = 0
    /\ first_call = [fig |-> NoFig, rng |-> 0]
    /\ np_random = 0

SampleIdle ==
    /\ ds_in = NoFrame
    /\ ds = NoFrame
    /\ ds_cap = 0
    /\ ds_once = NoFrame
    /\ ds_calls = 0

FetchIdle == fetched = [fn |-> "none"]

PairIdle == other = [data |-> None, df |-> NoFrame, fig |-> NoFig]
NoSession == [pc |-> "none"]
NoLoad == [source |-> "none"]
AppIdle == session = NoSession /\ loaded = NoLoad

GenIdle ==
    /\ large_dataset = << >>
    /\ gen_call = [called |-> FALSE, raised |-> FALSE, size |-> 0, locals |-> << >>]
    /\ external_reads = 0

(***************************************************************************)
(* The inputs of the layout engines.                                       *)
(***************************************************************************)
Dict(company, valuation, impact, growth) ==
    [ c \in {COMPANY, VALUATION, IMPACT, GROWTH} |->
        CASE c = COMPANY -> company [] c = VALUATION -> valuation
          [] c = IMPACT -> impact [] c = GROWTH -> growth ]

Without(rec, cols) == [c \in DOMAIN rec \ cols |-> rec[c]]

\* Records with every field, two of them at the same (growth, valuation), one
\* without growth rate and impact score, one with neither company nor valuation.
SampleRecords ==
    { Dict(<<"A">>, 1000, 5000, 10000),
      Dict(<<"B">>, 1000, 7500, 10000),
      Dict(<<"C">>, 4000, 9000, 25000),
      Dict(<<"D">>, 150, 2000, 5000),
      Without(Dict(<<"P">>, 12000, 0, 0), {IMPACT, GROWTH}),
      Without(Dict(<<"Q">>, 0, 6000, 40000), {COMPANY, VALUATION}) }

RECURSIVE SeqsUpTo(_, _)
SeqsUpTo(S, n) ==
    IF n = 0 THEN { << >> }
    ELSE LET shorter == SeqsUpTo(S, n - 1)
         IN shorter \cup { Append(q, x) : q \in { t \in shorter : Len(t) = n - 1 }, x \in S }

\* A long list: record i (0-based) cycles through a few values per field, with
\* periods 5, 4 and 3, and is not in valuation order.
BigValuations == <<150, 1000, 4000, 12000, 500>>
BigImpacts    == <<2000, 5000, 7500, 9000>>
BigGrowths    == <<5000, 10000, 25000>>

BigRecord(i) ==
    Dict(<<"Big", i>>, BigValuations[(i % 5) + 1], BigImpacts[(i % 4) + 1],
         BigGrowths[(i % 3) + 1])

BigList(n) == [i \in 1..n |-> BigRecord(i - 1)]

Caps == {SpiralTunnelCap, WaveSurfaceCap, UndulatingCap, RippleCap, GeolocationCap}

\* What a caller hands to an engine: None, the empty list, every list of up to
\* MaxRows sample records, one list as long as the smallest cap and one list
\* longer than every cap.
Inputs ==
    {None} \cup { List(q) : q \in SeqsUpTo(SampleRecords, MaxRows) }
           \cup { List(BigList(SetMin(Caps))), List(BigList(SetMax(Caps) + Excess)) }

(***************************************************************************)
(* Spec: engine calls on one input.  The caller's data is chosen initially *)
(* together with the state np.random was left in by whatever ran before;   *)
(* then the engines are called on it, in any order, any number of times.   *)
(* An engine reads nothing of an earlier call but np.random, so a call     *)
(* made after other calls equals a first call from some initial state.     *)
(***************************************************************************)
Init ==
    /\ GenIdle
    /\ SampleIdle
    /\ FetchIdle
    /\ PairIdle /\ AppIdle
    /\ data \in Inputs
    /\ np_random \in 0..(RngStates - 1)
    /\ df = NoFrame
    /\ fig = NoFig
    /\ rng_before = 0
    /\ first_call = [fig |-> NoFig, rng |-> 0]

\* Mutant: the frame is a view of the caller's records, so that sampling and
\* column assignments show in the caller's list.
CallerDataWrittenBack(d, frame) ==
    IF Falsy(d) THEN d ELSE List(frame.rows)

\* The caller's list after the call.  pd.DataFrame(data) copies the values of
\* the dicts into new arrays; df.sample, df[col] = ..., sort_values and
\* reset_index work on the frame, and nothing is assigned to data or to one
\* of its dicts.
CallerData(d, frame) == d

Returns(out) ==
    /\ data' = CallerData(data, out.frame)
    /\ fig' = out.fig
    /\ df' = out.frame
    /\ rng_before' = np_random
    /\ np_random' = out.rng
    /\ first_call' = IF first_call.fig = NoFig
                       THEN [fig |-> out.fig, rng |-> np_random] ELSE first_call
    /\ UNCHANGED <<genVars, sampleVars, fetchVars, pairVars, appVars>>

create_wave_surface_visualization    == Returns(WaveSurface(data, np_random))
create_spiral_tunnel_visualization   == Returns(SpiralTunnel(data, np_random))
create_ripple_bubbles_visualization  == Returns(RippleBubbles(data, np_random))
create_undulating_wave_visualization == Returns(UndulatingWave(data, np_random))
create_geolocation_visualization     == Returns(Geolocation(data, np_random))

\* SpecTotal: the engines on what is not a list of numeric records as well.
TotalInputs ==
    {None, List(<< >>), Scalar(TRUE), Scalar(FALSE)}
    \cup { List(<<r>>) : r \in SampleRecords }
    \cup { TextList(q) : q \in SeqsUpTo(SampleRecords, MaxRows) \ {<< >>} }

InitTotal ==
    /\ GenIdle
    /\ SampleIdle
    /\ FetchIdle
    /\ PairIdle /\ AppIdle
    /\ data \in TotalInputs
    /\ np_random \in 0..(RngStates - 1)
    /\ df = NoFrame
    /\ fig = NoFig
    /\ rng_before = 0
    /\ first_call = [fig |-> NoFig, rng |-> 0]

Next ==
    \/ create_wave_surface_visualization
    \/ create_spiral_tunnel_visualization
    \/ create_ripple_bubbles_visualization
    \/ create_undulating_wave_visualization
    \/ create_geolocation_visualization

Spec == Init /\ [][Next]_vars

SpecTotal == InitTotal /\ [][Next]_vars

(***************************************************************************)
(* SpecSample: the down-sampling step on its own, applied again to its own *)
(* result.                                                                 *)
(***************************************************************************)
SampleInputs ==
    { DataFrame(q) : q \in SeqsUpTo(SampleRecords, MaxRows) }

InitSample ==
    /\ GenIdle
    /\ EngineIdle
    /\ FetchIdle
    /\ PairIdle /\ AppIdle
    /\ \E cap \in Caps :
         /\ ds_cap = cap
         /\ ds_in \in SampleInputs
                      \cup { DataFrame(BigList(cap)), DataFrame(BigList(cap + Excess)) }
    /\ ds = ds_in
    /\ ds_once = NoFrame
    /\ ds_calls = 0

ApplyDownsample ==
    /\ ds_calls < MaxCalls
    /\ ds' = Downsample(ds, ds_cap)
    /\ ds_once' = IF ds_calls = 0 THEN ds' ELSE ds_once
    /\ ds_calls' = ds_calls + 1
    /\ UNCHANGED <<ds_in, ds_cap, genVars, engineVars, fetchVars, pairVars, appVars>>

NextSample == ApplyDownsample

SpecSample == InitSample /\ [][NextSample]_vars

(***************************************************************************)
(* SpecGen: calls of the synthetic generator.                              *)
(***************************************************************************)
InitGen == GenIdle /\ EngineIdle /\ SampleIdle /\ FetchIdle /\ PairIdle /\ AppIdle

NextGen ==
    \/ \E size \in SizeInputs : generate_large_realistic_dataset(size)
    \/ generate_large_realistic_dataset_except

SpecGen == InitGen /\ [][NextGen]_vars

(***************************************************************************)
(* SpecPipe: app.py with the data source "Large Unicorn Dataset": the      *)
(* generator is called with the requested size, its result becomes data,   *)
(* and the selected engine is called on it.                                *)
(***************************************************************************)
PipeSizes == {0, 1, EndToEndCount, SpiralTunnelCap}

InitPipe == GenIdle /\ EngineIdle /\ SampleIdle /\ FetchIdle /\ PairIdle /\ AppIdle

\* data = generate_large_realistic_dataset(dataset_size)
load_data ==
    /\ gen_call.called
    /\ data = None
    /\ data' = List(large_dataset)
    /\ UNCHANGED <<df, fig, rng_before, first_call, np_random, genVars, sampleVars,
                   fetchVars, pairVars, appVars>>

NextPipe ==
    \/ \E size \in PipeSizes : generate_large_realistic_dataset(size)
    \/ load_data
    \/ (data # None /\ Next)

SpecPipe == InitPipe /\ [][NextPipe]_vars

EngineCap(engine) ==
    CASE engine = "spiral_tunnel"   -> SpiralTunnelCap
      [] engine = "wave_surface"    -> WaveSurfaceCap
      [] engine = "undulating_wave" -> UndulatingCap
      [] engine = "ripple_bubbles"  -> RippleCap
      [] engine = "geolocation"     -> GeolocationCap

(***************************************************************************)
(* SpecPair: two datasets rendered one after the other (two runs of the    *)
(* script with different data), to compare what the ripple bubbles and the *)
(* undulating wave make of them.                                           *)
(***************************************************************************)
\* Records with every field (two pairs with the same extremes of valuation
\* and of growth rate), one without growth rate and impact score, one with
\* neither company nor valuation.
PairRecords ==
    { Dict(<<"A">>, 1000, 5000, 10000),
      Dict(<<"C">>, 4000, 9000, 25000),
      Dict(<<"E">>, 1000, 7500, 25000),
      Dict(<<"F">>, 4000, 2000, 10000),
      Without(Dict(<<"P">>, 12000, 0, 0), {IMPACT, GROWTH}),
      Without(Dict(<<"Q">>, 0, 6000, 40000), {COMPANY, VALUATION}) }

SpikeValuation == 20000   \* a valuation above every value of BigValuations

\* BigList(n) with the record at position pos (0-based) given a valuation no
\* other record has.
SpikeList(n, pos) ==
    [i \in 1..n |-> IF i - 1 = pos
                      THEN Dict(<<"Big", pos>>, SpikeValuation, 5000, 10000)
                      ELSE BigRecord(i - 1)]

\* The lists compared: short ones, lists one record above the caps of the two
\* engines, a list above every cap, and two lists of the same length whose
\* largest valuation sits at a position the down-sampling keeps, respectively
\* at the one position it drops.
PairInputs ==
    { List(q) : q \in SeqsUpTo(PairRecords, MaxRows) \ {<< >>} }
    \cup { List(BigList(RippleCap + Excess)), List(BigList(SetMax(Caps) + Excess)),
           List(SpikeList(UndulatingCap + 1, Permutation(UndulatingCap + 1)[1])),
           List(SpikeList(UndulatingCap + 1, Permutation(UndulatingCap + 1)[UndulatingCap + 1])) }

\* The number of records engine lays out of a list.
LaidOut(d, engine) == Min(Len(d.items), EngineCap(engine))

InitPair ==
    /\ GenIdle /\ SampleIdle /\ FetchIdle /\ PairIdle /\ AppIdle
    /\ data \in PairInputs
    /\ np_random \in 0..(RngStates - 1)
    /\ df = NoFrame
    /\ fig = NoFig
    /\ rng_before = 0
    /\ first_call = [fig |-> NoFig, rng |-> 0]

\* The next run of the script loads other data (lines 147-177): here a list
\* of which the engine lays out as many records as of the one before.
load_other_data ==
    /\ fig # NoFig
    /\ other.fig = NoFig
    /\ other' = [data |-> data, df |-> df, fig |-> fig]
    /\ \E d \in PairInputs :
         /\ LaidOut(d, fig.engine) = LaidOut(data, fig.engine)
         /\ data' = d
    /\ fig' = NoFig
    /\ df' = NoFrame
    /\ rng_before' = 0
    /\ first_call' = [fig |-> NoFig, rng |-> 0]
    /\ UNCHANGED <<np_random, genVars, sampleVars, fetchVars, appVars>>

NextPair ==
    \/ (fig = NoFig /\ create_ripple_bubbles_visualization)
    \/ (fig = NoFig /\ create_undulating_wave_visualization)
    \/ load_other_data

SpecPair == InitPair /\ [][NextPair]_vars

(***************************************************************************)
(* SpecWave: the wave surface on lists of three records, whose convex hull *)
(* (a triangle) leaves grid nodes that cannot be interpolated.             *)
(***************************************************************************)
\* Records with growth rates up to 15 % and valuations up to $10B; three of
\* them have the same impact score.
WaveRecords ==
    { Dict(<<"T1">>, 100, 5000, 200),
      Dict(<<"T2">>, 100, 5000, 1500),
      Dict(<<"T3">>, 1000, 5000, 200),
      Dict(<<"T4">>, 1000, 7000, 1500) }

WaveInputs == { List(<<a, b, c>>) : a \in WaveRecords, b \in WaveRecords, c \in WaveRecords }

InitWave ==
    /\ GenIdle /\ SampleIdle /\ FetchIdle /\ PairIdle /\ AppIdle
    /\ data \in WaveInputs
    /\ np_random = 0
    /\ df = NoFrame
    /\ fig = NoFig
    /\ rng_before = 0
    /\ first_call = [fig |-> NoFig, rng |-> 0]

NextWave == fig = NoFig /\ create_wave_surface_visualization

SpecWave == InitWave /\ [][NextWave]_vars

(***************************************************************************)
(* SpecApp: the refresh state of the dashboard script app.py.  Streamlit   *)
(* runs the script from the top on every widget interaction and on every   *)
(* st.rerun(); an interaction while the script is running stops that run.  *)
(* Time is kept as the age of last_refresh in whole seconds: an age of     *)
(* MaxAge stands for every age from MaxAge up to a day.                    *)
(***************************************************************************)
SliderMin == 10
SliderMax == 300
SliderStep == 10
DefaultInterval == 30
SecondsPerDay == 86400

SliderValues == { v \in SliderMin..SliderMax : (v - SliderMin) % SliderStep = 0 }

\* The positions the user leaves the slider at.
PickedIntervals == { v \in SliderValues : v <= PickedMax } \cup {SliderMax}

\* (datetime.now() - st.session_state.last_refresh).seconds: the seconds of
\* the difference, its days left out.
TimeSinceRefresh(age) == age % SecondsPerDay

\* Mutant: the check does not look at auto_refresh.
AutoRefreshDueUnchecked(auto_refresh, age, refresh_interval) ==
    TimeSinceRefresh(age) >= refresh_interval

\* if st.session_state.auto_refresh: ... if time_since_refresh >=
\* st.session_state.refresh_interval:
AutoRefreshDue(auto_refresh, age, refresh_interval) ==
    auto_refresh /\ TimeSinceRefresh(age) >= refresh_interval

\* Mutant: the progress loop is not entered.
NoPlaceholderSleeps(refresh_interval) == 0

\* for i in range(st.session_state.refresh_interval): the number of
\* time.sleep(1) calls of the placeholder loop.
PlaceholderSleeps(refresh_interval) == refresh_interval

Older(age) == Min(age + 1, MaxAge)

\* The browser has opened the page; the script has not run yet.
InitApp ==
    /\ GenIdle /\ EngineIdle /\ SampleIdle /\ FetchIdle /\ PairIdle
    /\ loaded = NoLoad
    /\ session = [ pc |-> "top", started |-> FALSE, cause |-> "start",
                   age |-> 0, by |-> "unset",
                   auto_refresh |-> FALSE, refresh_interval |-> DefaultInterval,
                   checkbox |-> FALSE, slider |-> DefaultInterval,
                   button |-> FALSE, i |-> 0, renders |-> 0, clicks |-> 0 ]

\* The script from its first line to the end of the auto-refresh check:
\* session state initialisation, "Refresh Now", the checkbox, the slider, the
\* check.  It ends in st.rerun() (pc stays "top") or goes on to load the data.
ScriptTop ==
    /\ session.pc = "top"
    /\ LET s0 == IF session.started THEN session
                 ELSE [session EXCEPT !.started = TRUE, !.age = 0, !.by = "init",
                                      !.auto_refresh = FALSE,
                                      !.refresh_interval = DefaultInterval]
       IN IF s0.button
            THEN session' = [s0 EXCEPT !.button = FALSE, !.age = 0, !.by = "button",
                                       !.cause = "button"]
            ELSE LET s1 == [s0 EXCEPT !.auto_refresh = s0.checkbox,
                                      !.refresh_interval = s0.slider]
                 IN IF AutoRefreshDue(s1.auto_refresh, s1.age, s1.refresh_interval)
                      THEN session' = [s1 EXCEPT !.age = 0, !.by = "auto",
                                                 !.cause = "auto"]
                      ELSE session' = [s1 EXCEPT !.pc = "load"]
    /\ UNCHANGED <<loaded, genVars, engineVars, sampleVars, fetchVars, pairVars>>

\* Data loading, the metrics, the engine call and st.plotly_chart.
LoadAndRender ==
    /\ session.pc = "load"
    /\ session' = [session EXCEPT !.pc = "rendered",
                                  !.renders = Min(session.renders + 1, 2)]
    /\ UNCHANGED <<loaded, genVars, engineVars, sampleVars, fetchVars, pairVars>>

\* if st.session_state.auto_refresh: placeholder = st.empty() ...; without
\* auto refresh the script ends.
Placeholder ==
    /\ session.pc = "rendered"
    /\ session' = [session EXCEPT
                     !.pc = IF session.auto_refresh THEN "sleep" ELSE "done",
                     !.i = 0]
    /\ UNCHANGED <<loaded, genVars, engineVars, sampleVars, fetchVars, pairVars>>

\* progress_bar.progress(...); time.sleep(1)
PlaceholderSleep ==
    /\ session.pc = "sleep"
    /\ session.i < PlaceholderSleeps(session.refresh_interval)
    /\ session' = [session EXCEPT !.i = session.i + 1, !.age = Older(session.age)]
    /\ UNCHANGED <<loaded, genVars, engineVars, sampleVars, fetchVars, pairVars>>

\* placeholder.empty(); st.rerun()
PlaceholderRerun ==
    /\ session.pc = "sleep"
    /\ session.i >= PlaceholderSleeps(session.refresh_interval)
    /\ session' = [session EXCEPT !.pc = "top", !.cause = "loop", !.i = 0]
    /\ UNCHANGED <<loaded, genVars, engineVars, sampleVars, fetchVars, pairVars>>

ScriptStep ==
    ScriptTop \/ LoadAndRender \/ Placeholder \/ PlaceholderSleep \/ PlaceholderRerun

\* A second passes that is not one of the placeholder's sleeps: while the
\* data is loaded and rendered, or while the page waits for the user.  The
\* script gets from its first line to the auto-refresh check (session state and
\* widget calls only) within the second.
Tick ==
    /\ session.pc # "top"
    /\ session.age < MaxAge
    /\ session' = [session EXCEPT !.age = session.age + 1]
    /\ UNCHANGED <<loaded, genVars, engineVars, sampleVars, fetchVars, pairVars>>

\* The user has the page (the first run has come to the widgets) and acts on
\* a widget; Streamlit stops the run in progress and runs the script again.
Interaction(widgets) ==
    /\ session.started
    /\ session.clicks < MaxClicks
    /\ session' = [widgets EXCEPT !.pc = "top", !.cause = "user", !.i = 0,
                                  !.clicks = session.clicks + 1]
    /\ UNCHANGED <<loaded, genVars, engineVars, sampleVars, fetchVars, pairVars>>

ToggleAutoRefresh == Interaction([session EXCEPT !.checkbox = ~session.checkbox])

MoveSlider ==
    \E v \in PickedIntervals \ {session.slider} :
        Interaction([session EXCEPT !.slider = v])

PressRefreshNow == Interaction([session EXCEPT !.button = TRUE])

NextApp ==
    \/ ScriptTop
    \/ LoadAndRender
    \/ Placeholder
    \/ PlaceholderSleep
    \/ PlaceholderRerun
    \/ Tick
    \/ ToggleAutoRefresh
    \/ MoveSlider
    \/ PressRefreshNow

SpecApp == InitApp /\ [][NextApp]_vars

\* The script runner runs the script on until it ends or is stopped.
SpecAppLive == SpecApp /\ WF_vars(ScriptStep)

(***************************************************************************)
(* SpecFetch: the external fetchers of utils/data_sources.py.  A fetcher   *)
(* makes at most one HTTP request; what the network answers is the input.  *)
(***************************************************************************)
MarketSymbols == 30     \* len(symbols) in get_market_data
WeatherCities == 15     \* len(cities) in get_weather_stations_data
StartupLimit == 10      \* data['records'][:10]

\* What requests.get(...) does: it raises (no connection, timeout), or it
\* returns a response with a status code and a body.
ConnectionError == [outcome |-> "raised"]
NoRequest == [outcome |-> "none"]
HttpResponse(status, body) == [outcome |-> "response", status_code |-> status, body |-> body]

\* An item of a JSON array: an object (a dict, which has .get) or a scalar
\* (a number or string, on which .get raises AttributeError).
JsonItems == UNION { [1..n -> {"object", "scalar"}] : n \in 0..MaxItems }

\* The body of a response: not JSON at all (response.json() raises), null,
\* an array, or an object with no member or with a "features" or "records"
\* member holding an array.
Bodies ==
    { [json |-> "invalid"], [json |-> "null"], [json |-> "object", members |-> << >>] }
    \cup { [json |-> "array", items |-> q] : q \in JsonItems }
    \cup { [json |-> "object", members |-> [m \in {key} |-> q]] :
             key \in {"features", "records"}, q \in JsonItems }

StatusCodes == {200, 404, 500}

Responses ==
    {ConnectionError} \cup { HttpResponse(st, b) : st \in StatusCodes, b \in Bodies }

\* for item in items: try: out.append({... item.get(...) ...}) except: continue
\* One record per object item, in order; an item whose .get raises is skipped.
AppendEach(items) ==
    LET kept == SelectSeq([i \in 1..Len(items) |-> i], LAMBDA i : items[i] = "object")
    IN [k \in 1..Len(kept) |-> [source |-> kept[k]]]

\* What `for x in response.json()` iterates over: the items of an array, the
\* keys of an object (strings).
Iterated(body) ==
    IF body.json = "array" THEN body.items
    ELSE [k \in 1..Cardinality(DOMAIN body.members) |-> "scalar"]

\* The three fetchers that loop over response.json() itself.  The return is
\* inside `if response.status_code == 200:`; the except branch returns [];
\* after the if there is no statement, so the function returns None.
ListFetcher(resp) ==
    IF resp.outcome = "raised" THEN List(<< >>)
    ELSE IF resp.status_code # 200 THEN None
    ELSE IF resp.body.json \in {"invalid", "null"} THEN List(<< >>)
    ELSE List(AppendEach(Iterated(resp.body)))

GetCryptoData(resp) == ListFetcher(resp)

GetNycOpenData(resp) == ListFetcher(resp)

GetGithubActivityData(resp) == ListFetcher(resp)

\* earthquake_data_raw.get('features', []): AttributeError on an array or on
\* null (caught by the outer except), [] without the member.
GetEarthquakeData(resp) ==
    IF resp.outcome = "raised" THEN List(<< >>)
    ELSE IF resp.status_code # 200 THEN None
    ELSE IF resp.body.json # "object" THEN List(<< >>)
    ELSE IF "features" \notin DOMAIN resp.body.members THEN List(<< >>)
    ELSE List(AppendEach(resp.body.members["features"]))

\* get_startup_data: the only fetcher with `return []` after the try.  The
\* loop over data['records'][:10] has no inner try: one item without .get
\* raises to the outer except, and the function returns [].
GetStartupData(resp) ==
    IF resp.outcome = "raised" THEN List(<< >>)
    ELSE IF resp.status_code # 200 THEN List(<< >>)
    ELSE IF resp.body.json \in {"invalid", "null"} THEN List(<< >>)
    ELSE IF resp.body.json = "array" THEN List(<< >>)
    ELSE IF "records" \notin DOMAIN resp.body.members THEN List(<< >>)
    ELSE LET records == resp.body.members["records"]
             first == SubSeq(records, 1, Min(StartupLimit, Len(records)))
         IN IF \E i \in 1..Len(first) : first[i] # "object"
              THEN List(<< >>) ELSE List(AppendEach(first))

\* get_market_data and get_weather_stations_data make no request: one
\* simulated record per symbol / city.
GetMarketData == List([k \in 1..MarketSymbols |-> [source |-> k]])

GetWeatherStationsData == List([k \in 1..WeatherCities |-> [source |-> k]])

Fetched(fn, resp, result) ==
    /\ fetched' = [fn |-> fn, response |-> resp, result |-> result]
    /\ UNCHANGED <<genVars, engineVars, sampleVars, pairVars, appVars>>

get_market_data == Fetched("get_market_data", NoRequest, GetMarketData)

get_weather_stations_data ==
    Fetched("get_weather_stations_data", NoRequest, GetWeatherStationsData)

get_crypto_data ==
    \E resp \in Responses : Fetched("get_crypto_data", resp, GetCryptoData(resp))

get_earthquake_data ==
    \E resp \in Responses : Fetched("get_earthquake_data", resp, GetEarthquakeData(resp))

get_nyc_open_data ==
    \E resp \in Responses : Fetched("get_nyc_open_data", resp, GetNycOpenData(resp))

get_github_activity_data ==
    \E resp \in Responses :
        Fetched("get_github_activity_data", resp, GetGithubActivityData(resp))

get_startup_data ==
    \E resp \in Responses : Fetched("get_startup_data", resp, GetStartupData(resp))

InitFetch == GenIdle /\ EngineIdle /\ SampleIdle /\ FetchIdle /\ PairIdle /\ AppIdle

NextFetch ==
    \/ get_market_data
    \/ get_crypto_data
    \/ get_weather_stations_data
    \/ get_earthquake_data
    \/ get_nyc_open_data
    \/ get_github_activity_data
    \/ get_startup_data

SpecFetch == InitFetch /\ [][NextFetch]_vars

(***************************************************************************)
(* SpecLoad: the data loading of one script run (app.py, "Get data based   *)
(* on selection") with get_real_time_data and get_unicorn_data.  A dataset *)
(* is kept as the sequence of its runs of records of one origin, each with *)
(* its number of records.                                                  *)
(***************************************************************************)
LargeMin == 100
LargeMax == 5000
LargeDefault == 1000
SmallMin == 10
SmallMax == 500
SmallDefault == 100
UnicornLimit == 500
MarketCap == 1000
CryptoCap == 500
WeatherCap == 300
EarthquakeCap == 200
NycCap == 500
GithubCap == 300
LargeThreshold == 100
SyntheticCount == 5000
ExceptCount == 3000

LARGE == "Large Unicorn Dataset"
REALTIME == "Real-time Unicorn Data"
STATIC == "Static Unicorn Dataset"
AIPOWERED == "AI-Powered Unicorn Analysis"
DataSources == {LARGE, REALTIME, STATIC, AIPOWERED}

\* dataset_size: the slider of the large dataset, the number input of the
\* other sources; their least, default and greatest values.
SizeChoices(data_source) ==
    IF data_source = LARGE THEN {LargeMin, LargeDefault, LargeMax}
    ELSE {SmallMin, SmallDefault, SmallMax}

Records(origin, n) == IF n > 0 THEN <<[origin |-> origin, n |-> n]>> ELSE << >>

RECURSIVE Count(_)
Count(segs) == IF segs = << >> THEN 0 ELSE Head(segs).n + Count(Tail(segs))

\* data[:k]
RECURSIVE Take(_, _)
Take(segs, k) ==
    IF segs = << >> \/ k <= 0 THEN << >>
    ELSE IF Head(segs).n >= k THEN Records(Head(segs).origin, k)
    ELSE <<Head(segs)>> \o Take(Tail(segs), k - Head(segs).n)

\* What a fetcher returned: None or a list of n records.
NoneResult == [none |-> TRUE, n |-> 0]
ListResult(n) == [none |-> FALSE, n |-> n]

\* The numbers of records the server of a fetcher sends: none, just not
\* enough and just enough to pass the threshold together with the market and
\* weather records, the slice length of get_real_time_data and one more.
ServerCounts(cap) ==
    {0, LargeThreshold - MarketSymbols - WeatherCities,
     LargeThreshold - MarketSymbols - WeatherCities + 1, cap, cap + Excess}

FetcherResults(cap) == {NoneResult} \cup { ListResult(n) : n \in ServerCounts(cap) }

Fetches ==
    [ market : {ListResult(Len(GetMarketData.items))},
      crypto : FetcherResults(CryptoCap),
      weather : {ListResult(Len(GetWeatherStationsData.items))},
      earthquake : FetcherResults(EarthquakeCap),
      nyc : FetcherResults(NycCap),
      github : {NoneResult, ListResult(0), ListResult(GithubCap + Excess)} ]

\* if x_data: datasets.extend(x_data[:cap])
Extend(datasets, result, origin, cap) ==
    IF result.none \/ result.n = 0 THEN datasets
    ELSE datasets \o Records(origin, Min(result.n, cap))

\* Mutant: a None from a fetcher is sliced.
GetRealTimeDataSlicesNone(f, raises) ==
    IF raises \/ \E k \in DOMAIN f : f[k].none
      THEN Records("generated", LoopCount(ExceptCount))
      ELSE Records("generated", LoopCount(SyntheticCount))

\* get_real_time_data(): f are the fetchers' results, raises tells whether a
\* step of the try block raised (the fetchers catch their own exceptions;
\* what is left is an error such as MemoryError).
GetRealTimeData(f, raises) ==
    IF raises THEN Records("generated", LoopCount(ExceptCount))
    ELSE LET d1 == Extend(<< >>, f.market, "market", MarketCap)
             d2 == Extend(d1, f.crypto, "crypto", CryptoCap)
             d3 == Extend(d2, f.weather, "weather", WeatherCap)
             d4 == Extend(d3, f.earthquake, "earthquake", EarthquakeCap)
             d5 == Extend(d4, f.nyc, "nyc", NycCap)
             datasets == Extend(d5, f.github, "github", GithubCap)
         IN IF Count(datasets) > LargeThreshold THEN datasets
            ELSE Records("generated", LoopCount(SyntheticCount))

\* get_unicorn_data(): it raises (the database or a JSON file cannot be read)
\* or returns a list: up to 500 database rows, a JSON file as it is, or the
\* two built-in records.
UnicornCounts ==
    {0, Len(FallbackUnicorns), SmallMin + 1, SmallDefault, UnicornLimit,
     UnicornLimit + Excess}

UnicornResults ==
    {[raises |-> TRUE, n |-> 0]} \cup { [raises |-> FALSE, n |-> n] : n \in UnicornCounts }

\* if data and len(data) > dataset_size: data = data[:dataset_size]
Truncated(segs, dataset_size) ==
    IF Count(segs) > 0 /\ Count(segs) > dataset_size THEN Take(segs, dataset_size)
    ELSE segs

NoFetches == [market |-> NoneResult]

\* except Exception as e: st.error(...); data = get_unicorn_data()
ExceptFallback(again) ==
    IF again.raises THEN [path |-> "error", data |-> << >>]
    ELSE [path |-> "except", data |-> Records("unicorn", again.n)]

InitLoad ==
    /\ GenIdle /\ EngineIdle /\ SampleIdle /\ FetchIdle /\ PairIdle
    /\ session = NoSession
    /\ \E src \in DataSources : \E size \in SizeChoices(src) :
         loaded = [ source |-> src, dataset_size |-> size, path |-> "none",
                    data |-> << >>, fetches |-> NoFetches, raises |-> FALSE,
                    real_time |-> << >> ]

Loaded(out) ==
    /\ loaded.path = "none"
    /\ loaded' = [loaded EXCEPT !.path = out.path, !.data = out.data]
    /\ UNCHANGED <<session, genVars, engineVars, sampleVars, fetchVars, pairVars>>

\* data = generate_large_realistic_dataset(dataset_size)
LoadLarge ==
    /\ loaded.source = LARGE
    /\ Loaded([path |-> "try",
               data |-> Records("generated", LoopCount(loaded.dataset_size))])

\* data = get_real_time_data(); truncated to dataset_size
LoadRealTime ==
    /\ loaded.source = REALTIME
    /\ loaded.path = "none"
    /\ \E f \in Fetches : \E raises \in BOOLEAN :
         LET rt == GetRealTimeData(f, raises)
         IN loaded' = [loaded EXCEPT !.path = "try", !.fetches = f,
                                     !.raises = raises, !.real_time = rt,
                                     !.data = Truncated(rt, loaded.dataset_size)]
    /\ UNCHANGED <<session, genVars, engineVars, sampleVars, fetchVars, pairVars>>

\* base_data = get_unicorn_data(), topped up by the generator or cut
LoadAiPowered ==
    /\ loaded.source = AIPOWERED
    /\ \E first \in UnicornResults : \E again \in UnicornResults :
         Loaded(IF first.raises THEN ExceptFallback(again)
                ELSE LET base_data == Records("unicorn", first.n)
                         missing == loaded.dataset_size - first.n
                     IN [ path |-> "try",
                          data |-> IF first.n < loaded.dataset_size
                                     THEN base_data \o Records("generated", LoopCount(missing))
                                     ELSE Take(base_data, loaded.dataset_size) ])

\* data = get_unicorn_data(); truncated to dataset_size
LoadStatic ==
    /\ loaded.source = STATIC
    /\ \E first \in UnicornResults : \E again \in UnicornResults :
         Loaded(IF first.raises THEN ExceptFallback(again)
                ELSE [ path |-> "try",
                       data |-> Truncated(Records("unicorn", first.n),
                                          loaded.dataset_size) ])

NextLoad == LoadLarge \/ LoadRealTime \/ LoadAiPowered \/ LoadStatic

SpecLoad == InitLoad /\ [][NextLoad]_vars

(***************************************************************************)
(* Properties.                                                             *)
(***************************************************************************)
Called == fig.kind # "none"

\* C1: an engine called with None or with the empty list returns the error
\* figure, whose only trace is the single point (0, 0, 0); the call returns
\* (every engine action ends in a figure, none in an exception).
C1_EmptyInputGivesSentinel ==
    (Called /\ Falsy(data)) =>
        /\ fig.kind = "error"
        /\ fig.x = <<0>> /\ fig.y = <<0>> /\ fig.z = <<0>>

C1_Witness ==
    /\ Called /\ data = List(<< >>)
    /\ fig.kind = "error" /\ fig.engine = "geolocation"

\* C2: after an engine call on a list of n > 0 records the engine's frame has
\* min(n, cap) rows, each a distinct record of the input (by index label),
\* with its input fields unchanged; for n <= cap the rows are the n input
\* records in input order; and a scene has one point per row of the frame.
C2_DownsampleToCap ==
    (Called /\ ~Falsy(data)) =>
        LET n == Len(data.items)
            cap == EngineCap(fig.engine)
            m == Len(df.index)
        IN /\ m = (IF n > cap THEN cap ELSE n)
           /\ Len(df.rows) = m
           /\ \A k \in 1..m : df.index[k] \in 0..(n - 1)
           /\ Cardinality({ df.index[k] : k \in 1..m }) = m
           /\ \A k \in 1..m :
                LET rec == data.items[df.index[k] + 1]
                IN \A c \in DOMAIN rec : c \in DOMAIN df.rows[k] /\ df.rows[k][c] = rec[c]
           /\ (n <= cap => \A k \in 1..m : df.index[k] = k - 1)
           /\ (fig.kind = "scene" => Len(fig.points) = m)

C2_Witness ==
    /\ Called /\ ~Falsy(data)
    /\ fig.kind = "scene" /\ fig.engine = "ripple_bubbles"
    /\ Len(data.items) > RippleCap
    /\ Len(fig.points) = 800

\* C3: for a frame longer than the cap, down-sampling the down-sampled frame
\* again with the same cap returns it unchanged: same rows, same order.
C3_DownsampleIdempotent ==
    (ds_calls >= 2 /\ Len(ds_in.index) > ds_cap) => ds = ds_once

C3_Witness ==
    /\ ds_calls = 2 /\ Len(ds_in.index) > ds_cap
    /\ ds = ds_once /\ ds # ds_in /\ Len(ds.index) = ds_cap

\* The point set of a figure: per point its coordinates (in the engine's own
\* parametrisation) and the company it stands for.
PointSet(f) ==
    IF f.kind = "error" THEN <<f.x, f.y, f.z>>
    ELSE CASE f.engine = "spiral_tunnel" ->
                [k \in 1..Len(f.points) |->
                   <<f.points[k].z, f.points[k].theta, f.points[k].growth_norm, f.points[k].text[1]>>]
           [] f.engine = "geolocation" ->
                [k \in 1..Len(f.points) |->
                   <<f.points[k].t, f.points[k].radius, f.points[k].z, f.points[k].text[1]>>]
           [] f.engine = "ripple_bubbles" ->
                [k \in 1..Len(f.points) |->
                   <<f.points[k].x, f.points[k].y, f.points[k].z, f.frame_i[k], f.points[k].text[1]>>]
           [] f.engine = "undulating_wave" ->
                [k \in 1..Len(f.points) |->
                   <<f.points[k].x, f.points[k].y, f.bounds, f.points[k].text[1]>>]
           [] f.engine = "wave_surface" ->
                [k \in 1..Len(f.points) |->
                   <<f.points[k].x, f.points[k].y, f.points[k].z, f.points[k].text[1]>>]

SameEngineAgain == Called /\ first_call.fig.kind # "none" /\ first_call.fig.engine = fig.engine

\* C4 as claimed: a call of an engine yields the point set that the first call
\* of that engine on the same data yielded, whatever ran in between.
C4_Reproducible ==
    SameEngineAgain => PointSet(fig) = PointSet(first_call.fig)

\* The columns an engine fills with np.random.uniform when the frame lacks them.
FilledColumns(engine) ==
    IF engine = "geolocation" THEN {VALUATION, IMPACT} ELSE {GROWTH, VALUATION, IMPACT}

HasFilledColumns(engine) ==
    Falsy(data) \/ FilledColumns(engine) \subseteq DataFrame(data.items).columns

\* C4, amended: when the input carries every column the engine would
\* otherwise fill with random defaults, a call of an engine yields the point
\* set that the first call of that engine on the same data yielded, whatever
\* ran in between and whatever state np.random was in.
C4_ReproducibleWithAllColumns ==
    (SameEngineAgain /\ HasFilledColumns(fig.engine)) =>
        PointSet(fig) = PointSet(first_call.fig)

C4_Witness ==
    /\ SameEngineAgain /\ ~Falsy(data) /\ HasFilledColumns(fig.engine)
    /\ fig.kind = "scene" /\ fig.engine = "ripple_bubbles"
    /\ Len(data.items) > RippleCap /\ Len(fig.points) = RippleCap
    /\ rng_before # first_call.rng
    /\ PointSet(fig) = PointSet(first_call.fig)

TunnelScene == Called /\ fig.kind = "scene" /\ fig.engine = "spiral_tunnel"

\* C5: in the spiral tunnel the k-th point (its z, its angle and its hover
\* text) belongs to the k-th surviving record of the original input order,
\* also above the cap of 1000: the rows of the frame are in ascending order of
\* their input positions.
C5_OrderAligned ==
    TunnelScene =>
        \A k \in 1..Len(fig.points) :
            /\ (k > 1 => df.index[k - 1] < df.index[k])
            /\ fig.points[k].z = Linspace(TunnelHeight, Len(fig.points), k - 1)
            /\ fig.points[k].theta = Linspace(TunnelTurns * 2, Len(fig.points), k - 1)
            /\ fig.points[k].text = HoverText(df, df.rows[k], k - 1)

GenReturned == gen_call.called /\ ~gen_call.raised

\* C6: a call with an integer count >= 0 returns exactly count records and
\* reads no file and no database.
C6_GeneratesCount ==
    (GenReturned /\ gen_call.size >= 0) =>
        /\ Len(large_dataset) = gen_call.size
        /\ external_reads = 0

C6_Witness ==
    /\ GenReturned /\ gen_call.size = 2
    /\ Len(large_dataset) = 2 /\ external_reads = 0

\* C7 as claimed: the final valuation of every generated record obeys the
\* bound of its status: Decacorn >= 10, Hectocorn >= 100, Soonicorn <= 1.
C7_StatusBoundOnFinalValuation ==
    GenReturned =>
        \A i \in 1..Len(large_dataset) :
            LET r == large_dataset[i]
            IN /\ (r[STATUS] = "Decacorn" => r[VALUATION] >= 1000)
               /\ (r[STATUS] = "Hectocorn" => r[VALUATION] >= 10000)
               /\ (r[STATUS] = "Soonicorn" => r[VALUATION] <= 100)

\* C8: for every generated record one factor f in [0.8, 1.2] scales both the
\* clamped valuation base and the growth base of that record's iteration.
C8_SharedFactor ==
    GenReturned =>
        \A i \in 1..Len(large_dataset) :
            \E f \in 80..120 :
                /\ large_dataset[i][VALUATION] = (gen_call.locals[i].valuation_base * f) \div 100
                /\ large_dataset[i][GROWTH] = (gen_call.locals[i].growth_base * f) \div 100

C8_Witness ==
    /\ GenReturned /\ Len(large_dataset) = 2
    /\ gen_call.locals[1].correlation_factor = 80
    /\ gen_call.locals[2].correlation_factor = 120
    /\ large_dataset[1][GROWTH] * 100 = gen_call.locals[1].growth_base * 80
    /\ large_dataset[2][GROWTH] * 100 = gen_call.locals[2].growth_base * 120

\* C9: every generated record has 1 <= 'AI Impact Score' <= 95.
C9_ImpactWithinBounds ==
    GenReturned =>
        \A i \in 1..Len(large_dataset) :
            /\ large_dataset[i][IMPACT] >= 100
            /\ large_dataset[i][IMPACT] <= 9500

C9_Witness ==
    /\ GenReturned
    /\ \E i \in 1..Len(large_dataset) :
         /\ gen_call.locals[i].ai_impact_base + gen_call.locals[i].impact_jitter > 9500
         /\ large_dataset[i][IMPACT] = 9500

\* The table of the claim, in hundredths: <<lo, hi>> of valuation, impact and
\* growth per sector.
C17_Bucket(sector) ==
    CASE sector = "AI/ML" ->
           [v |-> <<100, 30000>>, a |-> <<7000, 9500>>, g |-> <<20000, 200000>>]
      [] sector = "Fintech" ->
           [v |-> <<100, 15000>>, a |-> <<4000, 8000>>, g |-> <<10000, 80000>>]
      [] sector \in {"Healthtech", "Biotech"} ->
           [v |-> <<50, 10000>>, a |-> <<6000, 9000>>, g |-> <<8000, 50000>>]
      [] sector = "E-commerce" ->
           [v |-> <<100, 20000>>, a |-> <<3000, 7000>>, g |-> <<15000, 100000>>]
      [] sector \in {"SaaS", "Edtech", "Gaming", "Aerospace", "Cybersecurity",
                     "Cleantech", "Mobility", "Foodtech", "Proptech", "Adtech",
                     "Logistics"} ->
           [v |-> <<50, 8000>>, a |-> <<2000, 7000>>, g |-> <<5000, 40000>>]

C17_Within(x, range) == range[1] <= x /\ x <= range[2]

\* C17: every generated record has one of the 16 catalog sectors, the three
\* bases of its iteration were drawn from that sector's bucket of the table,
\* its final growth rate lies in [0.8*lo, 1.2*hi] of the bucket's growth range
\* and, when its status is Unicorn, its final valuation lies in
\* [0.8*lo, 1.2*hi] of the bucket's valuation range.
C17_SectorBuckets ==
    GenReturned =>
        \A i \in 1..Len(large_dataset) :
            LET r == large_dataset[i]
                l == gen_call.locals[i]
                b == C17_Bucket(r[SECTOR])
            IN /\ \E j \in 1..16 : sectors[j] = r[SECTOR]
               /\ l.sector = r[SECTOR]
               /\ C17_Within(l.valuation_draw, b.v)
               /\ C17_Within(l.ai_impact_base, b.a)
               /\ C17_Within(l.growth_base, b.g)
               /\ 80 * b.g[1] <= 100 * r[GROWTH] /\ 100 * r[GROWTH] <= 120 * b.g[2]
               /\ (r[STATUS] = "Unicorn" =>
                     /\ 80 * b.v[1] <= 100 * r[VALUATION]
                     /\ 100 * r[VALUATION] <= 120 * b.v[2])

C17_Witness ==
    /\ GenReturned /\ Len(large_dataset) = 2
    /\ large_dataset[1][SECTOR] = "Logistics" /\ large_dataset[1][STATUS] = "Unicorn"
    /\ large_dataset[1][GROWTH] = 48000 /\ large_dataset[1][VALUATION] = 9600
    /\ large_dataset[2][SECTOR] = "Biotech" /\ large_dataset[2][GROWTH] = 6400

\* C11: the spiral tunnel called on the n records the generator returned,
\* 1 <= n <= 1000, returns a scene of exactly n points whose k-th z (k from
\* 0) is 100*k/(n-1), the k-th of n evenly spaced values from 0 to 100 (0 for
\* n = 1), so that 0 <= z <= 100.
C11_GeneratedToTunnel ==
    (/\ Called /\ fig.engine = "spiral_tunnel"
     /\ GenReturned /\ data = List(large_dataset)
     /\ 1 <= Len(large_dataset) /\ Len(large_dataset) <= 1000) =>
        LET n == Len(large_dataset)
        IN /\ fig.kind = "scene"
           /\ Len(fig.points) = n
           /\ \A k \in 1..n :
                LET z == fig.points[k].z
                IN /\ z[2] > 0
                   /\ 0 <= z[1] /\ z[1] <= 100 * z[2]
                   /\ z[1] * (IF n = 1 THEN 1 ELSE n - 1) = 100 * (k - 1) * z[2]

C11_Witness ==
    /\ Called /\ fig.engine = "spiral_tunnel" /\ fig.kind = "scene"
    /\ GenReturned /\ data = List(large_dataset)
    /\ Len(large_dataset) = 100 /\ Len(fig.points) = 100
    /\ fig.points[1].z[1] = 0
    /\ fig.points[100].z[1] = 100 * fig.points[100].z[2]

\* C13: the wave surface called with exactly two records of identical growth
\* rate and identical valuation returns the wave-surface scene with its
\* 100 x 100 grid, not the error figure.
C13_TwoCoincidentPointsGiveScene ==
    (/\ Called /\ fig.engine = "wave_surface"
     /\ ~Falsy(data) /\ Len(data.items) = 2
     /\ \A c \in {GROWTH, VALUATION} :
           /\ c \in DOMAIN data.items[1] /\ c \in DOMAIN data.items[2]
           /\ data.items[1][c] = data.items[2][c]) =>
        /\ fig.kind = "scene"
        /\ fig.grid = 100

\* The default range of a numeric field, in hundredths.
C14_DefaultRange(col) ==
    CASE col = VALUATION -> <<100, 5000>>
      [] col = IMPACT    -> <<2000, 9000>>
      [] col = GROWTH    -> <<5000, 20000>>

\* C14: after an engine call on a non-empty list every row of the engine's
\* frame has the numeric fields the engine computes with (valuation, impact
\* score and growth rate; valuation and impact score in the geolocation
\* spiral) populated: the record's own value if it carries the field, else a
\* default in [1,50], [20,90], [50,200], also when other records of the list
\* carry the field; every other field of the record is as in the input.
C14_EveryRecordPopulated ==
    (Called /\ ~Falsy(data)) =>
        \A k \in 1..Len(df.rows) :
            LET rec == data.items[df.index[k] + 1]
                row == df.rows[k]
            IN /\ \A c \in FilledColumns(fig.engine) :
                    /\ c \in DOMAIN row
                    /\ IF c \in DOMAIN rec THEN row[c] = rec[c]
                       ELSE /\ C14_DefaultRange(c)[1] <= row[c]
                            /\ row[c] <= C14_DefaultRange(c)[2]
               /\ \A c \in DOMAIN rec : c \in DOMAIN row /\ row[c] = rec[c]

\* C15: no engine call changes the caller's list: its length, the order of
\* its records and every field of every record are after the call what they
\* were before it.
C15_CallerDataUnchanged == [][data' = data]_vars

C15_Witness ==
    /\ Called /\ fig.kind = "scene" /\ fig.engine = "geolocation"
    /\ Len(data.items) > 2000 /\ Len(df.rows) = 2000
    /\ first_call.fig.engine = "ripple_bubbles"
    /\ data = List(BigList(Len(data.items)))

RippleScene == Called /\ fig.kind = "scene" /\ fig.engine = "ripple_bubbles"

\* C12: the ripple bubbles figure has exactly 60 frames, every frame has one
\* point per row of the frame laid out (as the base trace has), and in every
\* frame the x and y of every point are those of the base trace.
C12_RippleFramesKeepXY ==
    RippleScene =>
        LET n == Len(df.rows)
        IN /\ Len(fig.points) = n
           /\ Len(fig.frames) = 60
           /\ \A f \in 1..60 :
                /\ Len(fig.frames[f].x) = n
                /\ Len(fig.frames[f].y) = n
                /\ Len(fig.frames[f].z) = n
                /\ \A k \in 1..n :
                     /\ fig.frames[f].x[k] = fig.points[k].x
                     /\ fig.frames[f].y[k] = fig.points[k].y

C12_Witness ==
    /\ RippleScene /\ Len(df.rows) = 2 /\ Len(fig.frames) = 60
    /\ fig.points[1].x # fig.points[2].x
    /\ fig.frames[1].z # fig.frames[2].z
    /\ fig.frames[60].x = fig.frames[1].x

\* C20 as claimed: in frame f (0-based) the z of the point at position i
\* (0-based) of the laid-out sequence is 0.5 + 0.4*sin(2*pi*f/60 + 0.2*i),
\* whatever the size of the dataset.
C20_PhaseByPosition ==
    RippleScene =>
        \A f \in 1..Len(fig.frames) : \A k \in 1..Len(fig.points) :
            fig.frames[f].z[k] = <<f - 1, k - 1>>

\* C20, amended: in frame f (0-based) the z of the k-th point is
\* 0.5 + 0.4*sin(2*pi*f/60 + 0.2*i) with i the index label of the k-th row
\* of the frame, which is the position of that record in the input list; up
\* to the cap of 800 this is the position of the point, above it (after
\* down-sampling) it is not.
C20_PhaseByIndexLabel ==
    RippleScene =>
        /\ Len(fig.frames) = 60
        /\ \A f \in 1..60 : \A k \in 1..Len(fig.points) :
              fig.frames[f].z[k] = <<f - 1, df.index[k]>>
        /\ \A k \in 1..Len(fig.points) :
              /\ \A c \in DOMAIN data.items[df.index[k] + 1] :
                    df.rows[k][c] = data.items[df.index[k] + 1][c]
              /\ (Len(data.items) <= 800 => df.index[k] = k - 1)

C20_Witness ==
    /\ RippleScene /\ Len(data.items) > 800 /\ Len(fig.points) = 800
    /\ \E k \in 1..800 : fig.frames[60].z[k] # <<59, k - 1>>
    /\ fig.frames[60].z[1] = <<59, df.index[1]>>

GeolocationScene == Called /\ fig.kind = "scene" /\ fig.engine = "geolocation"

WaveScene == Called /\ fig.kind = "scene" /\ fig.engine = "wave_surface"

RECURSIVE C24_ImpactSum(_)
C24_ImpactSum(rows) ==
    IF rows = << >> THEN 0 ELSE Head(rows)[IMPACT] + C24_ImpactSum(Tail(rows))

\* C24: in the wave surface every grid node that cannot be interpolated
\* (outside the convex hull of the data points) is filled with the mean impact
\* score of the laid-out records: where the bounds of the fill value are
\* known, the mean impact score (sum / n) lies within them.
C24_HolesFilledWithMeanImpact ==
    (/\ WaveScene
     /\ \E i \in {1, WaveGrid} : \E j \in {1, WaveGrid} :
            ~Interpolable(fig.surface, i, j)
     /\ fig.surface.fill # << >>) =>
        LET n == Len(df.rows)
            total == C24_ImpactSum(df.rows)
        IN /\ fig.surface.fill[1] * n <= total
           /\ total <= fig.surface.fill[2] * n

\* C26: every engine is total: whatever it is given (None, an empty list, a
\* value that is no list, a single record, records with missing or
\* non-numeric fields) it returns a figure, and where its body raises, the
\* figure is the sentinel with the single point (0, 0, 0).
C26_EnginesAreTotal ==
    Called =>
        /\ fig.kind \in {"scene", "error"}
        /\ fig.kind = "error" =>
              (fig.x = <<0>> /\ fig.y = <<0>> /\ fig.z = <<0>>)
        /\ (Falsy(data) \/ BodyRaises(data)) => fig.kind = "error"

\* An engine has been given a truthy value that is no list, or records with
\* text in numeric fields, and has returned.
C26_Witness ==
    /\ Called
    /\ BodyRaises(data)
    /\ fig = ErrorFigure(fig.engine, fig.title)

\* C29: the status clamp comes before the jitter by a factor in [0.8, 1.2],
\* so the final valuation of a generated record is >= 8 for a Decacorn, >= 80
\* for a Hectocorn, within [0.4, 1.2] for a Soonicorn, and within [0.4, 360]
\* for every record.
C29_ValuationAfterJitter ==
    GenReturned =>
        \A i \in 1..Len(large_dataset) :
            LET r == large_dataset[i]
            IN /\ (r[STATUS] = "Decacorn" => r[VALUATION] >= 800)
               /\ (r[STATUS] = "Hectocorn" => r[VALUATION] >= 8000)
               /\ (r[STATUS] = "Soonicorn" => (40 <= r[VALUATION] /\ r[VALUATION] <= 120))
               /\ 40 <= r[VALUATION] /\ r[VALUATION] <= 36000

\* A dataset with a Decacorn at 8.0 (floor 10, factor 0.8) and a Soonicorn at
\* 1.2 (cap 1, factor 1.2).
C29_Witness ==
    /\ GenReturned /\ Len(large_dataset) = 2
    /\ \E i \in 1..2 :
          large_dataset[i][STATUS] = "Decacorn" /\ large_dataset[i][VALUATION] = 800
    /\ \E i \in 1..2 :
          large_dataset[i][STATUS] = "Soonicorn" /\ large_dataset[i][VALUATION] = 120

DataLoaded == loaded.path \in {"try", "except"}

\* C27: after data loading the dataset handed to the engine never has more
\* than dataset_size records, for every data source and on every path, the
\* exception fallback included; for 'AI-Powered Unicorn Analysis' it has
\* exactly dataset_size records.
C27_AtMostDatasetSize ==
    DataLoaded =>
        /\ Count(loaded.data) <= loaded.dataset_size
        /\ loaded.source = AIPOWERED => Count(loaded.data) = loaded.dataset_size

RealTimeLoaded == loaded.path = "try" /\ loaded.source = REALTIME

\* The records of a fetcher that get_real_time_data is said to keep.
C28_Kept(result, cap) ==
    IF result.none THEN 0 ELSE IF result.n > cap THEN cap ELSE result.n

C28_Collected ==
    << [origin |-> "market", n |-> C28_Kept(loaded.fetches.market, 1000)],
       [origin |-> "crypto", n |-> C28_Kept(loaded.fetches.crypto, 500)],
       [origin |-> "weather", n |-> C28_Kept(loaded.fetches.weather, 300)],
       [origin |-> "earthquake", n |-> C28_Kept(loaded.fetches.earthquake, 200)],
       [origin |-> "nyc", n |-> C28_Kept(loaded.fetches.nyc, 500)],
       [origin |-> "github", n |-> C28_Kept(loaded.fetches.github, 300)] >>

\* C28: get_real_time_data returns the combined fetched records (at most 1000
\* market, 500 crypto, 300 weather, 200 earthquake, 500 NYC and 300 GitHub
\* records, in that order) if and only if more than 100 were collected; with
\* 100 or fewer it returns the generator's 5000 records; if a step raises, the
\* generator's 3000 records; a fetcher returning None is passed over.
C28_RealTimeData ==
    RealTimeLoaded =>
        LET kept == SelectSeq(C28_Collected, LAMBDA seg : seg.n > 0)
        IN IF loaded.raises
             THEN loaded.real_time = <<[origin |-> "generated", n |-> 3000]>>
             ELSE IF Count(kept) > 100
                    THEN loaded.real_time = kept
                    ELSE loaded.real_time = <<[origin |-> "generated", n |-> 5000]>>

\* The combined records were returned although a fetcher returned None and
\* another one more records than are kept of it.
C28_Witness ==
    /\ RealTimeLoaded
    /\ ~loaded.raises
    /\ loaded.fetches.crypto.none
    /\ loaded.fetches.earthquake.n > 200
    /\ Len(loaded.real_time) = 3
    /\ loaded.real_time[1].origin = "market"

Rendered == session.pc = "rendered"

\* The auto-refresh check has just set last_refresh and called st.rerun().
AutoRefreshed ==
    /\ session.pc = "top"
    /\ session.cause = "auto"
    /\ session.by = "auto"
    /\ session.age = 0

\* The step is the auto-refresh check triggering.
AutoRefreshTriggers ==
    /\ session.pc = "top"
    /\ session'.pc = "top"
    /\ session' # session
    /\ session'.clicks = session.clicks
    /\ session'.cause = "auto"
    /\ session'.age = 0

C30_RefreshState ==
    /\ [](session.started =>
            /\ session.refresh_interval \in SliderMin..SliderMax
            /\ session.clicks = 0 =>
                 (~session.auto_refresh /\ session.refresh_interval = 30))
    /\ []((session.pc = "top" /\ session.cause \in {"auto", "loop"}) =>
            session.auto_refresh)
    /\ [][(/\ session.started
           /\ ~session'.auto_refresh
           /\ session'.by # session.by \/ session'.age < session.age)
            => (session.button /\ session'.by = "button")]_vars

\* A script run has ended without a refresh although auto_refresh is off and
\* more than refresh_interval seconds have passed since "Refresh Now".
C30_Witness ==
    /\ session.pc = "done"
    /\ ~session.auto_refresh
    /\ session.by = "button"
    /\ session.age >= session.refresh_interval

UndulatingScene == Called /\ fig.kind = "scene" /\ fig.engine = "undulating_wave"

\* A term of the code, (c - c_min) / (range + 1e-9)^2, has the value of the
\* claimed ((c - c_min) / (range + 1e-9))^2 only where c - c_min is 0 or 1
\* (num = 0 or num / den = 100 hundredths).
C22_TermAsClaimed(t) == t.num = 0 \/ t.num = 100 * t.den

\* C22: in the undulating wave the height at every node (x, y) of the
\* 50 x 50 grid is sin(10*sqrt(normX^2 + normY^2)), normX and normY being
\* (x - x_min)/(x_max - x_min + 1e-9) and (y - y_min)/(y_max - y_min + 1e-9):
\* a number (never NaN) at every node, the padded nodes below x_min or y_min
\* included.
C22_RadialSineEverywhere ==
    UndulatingScene =>
        /\ Len(fig.surface.x) = 50 /\ Len(fig.surface.y) = 50
        /\ \A i \in 1..50 : \A j \in 1..50 :
              /\ ~IsNaN(SurfaceZ(fig.surface, i, j))
              /\ C22_TermAsClaimed(fig.surface.tx[i])
              /\ C22_TermAsClaimed(fig.surface.ty[j])

\* The undulating wave has rendered two datasets of which it laid out the
\* same number of records.
UndulatingPair ==
    /\ UndulatingScene
    /\ other.fig # NoFig /\ other.fig.engine = "undulating_wave"
    /\ other.fig.kind = "scene"
    /\ Len(df.rows) = Len(other.df.rows)

\* Minimum and maximum of valuation and of growth rate over a frame.
C23_Extremes(frame) ==
    << ColumnMin(frame, VALUATION), ColumnMax(frame, VALUATION),
       ColumnMin(frame, GROWTH), ColumnMax(frame, GROWTH) >>

\* The (x, y, z) of the company markers of a figure.
C23_Markers(f) ==
    [k \in 1..Len(f.points) |-> <<f.points[k].x, f.points[k].y, f.points[k].z>>]

\* C23 as claimed: two datasets with the same number of laid-out records and
\* the same minimum and maximum of valuation and of growth rate (over the
\* records of the dataset) get identical marker coordinates.
C23_MarkersFromDatasetExtremes ==
    (/\ UndulatingPair
     /\ C23_Extremes(DataFrame(data.items)) = C23_Extremes(DataFrame(other.data.items))
     /\ \A e \in 1..4 : ~IsNaN(C23_Extremes(DataFrame(data.items))[e])) =>
        C23_Markers(fig) = C23_Markers(other.fig)

\* C23, amended: two datasets with the same number of laid-out records and
\* the same minimum and maximum of valuation and of growth rate over the
\* laid-out records (the frame after down-sampling and default fills) get
\* identical marker coordinates, whatever the records are.
C23_MarkersFromLaidOutExtremes ==
    (UndulatingPair /\ C23_Extremes(df) = C23_Extremes(other.df)) =>
        C23_Markers(fig) = C23_Markers(other.fig)

C23_Witness ==
    /\ UndulatingPair /\ C23_Extremes(df) = C23_Extremes(other.df)
    /\ Len(df.rows) = 2
    /\ \A k \in 1..2 : \A j \in 1..2 : df.rows[k] # other.df.rows[j]
    /\ df.rows[1][VALUATION] # df.rows[2][VALUATION]
    /\ C23_Markers(fig) = C23_Markers(other.fig)

\* The ripple bubbles engine has rendered two datasets of which it laid out
\* the same number of records.
RipplePair ==
    /\ Called /\ fig.engine = "ripple_bubbles"
    /\ other.fig # NoFig /\ other.fig.engine = "ripple_bubbles"
    /\ LaidOut(data, "ripple_bubbles") = LaidOut(other.data, "ripple_bubbles")

\* The coordinates a ripple bubbles figure shows: the (x, y, z) of the base
\* trace and the x, y, z of every frame.
C21_Positions(f) ==
    IF f.kind = "scene"
      THEN [ base   |-> [k \in 1..Len(f.points) |->
                           <<f.points[k].x, f.points[k].y, f.points[k].z>>],
             frames |-> f.frames ]
      ELSE [ base |-> <<<<f.x[1], f.y[1], f.z[1]>>>>, frames |-> << >> ]

\* C21: the ripple bubbles figures of two datasets with the same number of
\* laid-out records have the same base-trace positions and the same
\* coordinates in all 60 frames, whatever the values of the records.
C21_PositionsCarryNoSignal ==
    RipplePair => C21_Positions(fig) = C21_Positions(other.fig)

\* A fetcher's request failed: requests.get or response.json() raised, or
\* the response's status is not 200.
C16_Failed ==
    \/ fetched.response.outcome = "raised"
    \/ /\ fetched.response.outcome = "response"
       /\ \/ fetched.response.status_code # 200
          \/ fetched.response.body.json = "invalid"

\* C16: every call of an external fetcher returns a sequence (the call
\* returns, and what it returns is a list, never None), and the empty
\* sequence when the request failed.
C16_FetchersReturnEmptyOnFailure ==
    fetched.fn # "none" =>
        /\ fetched.result.kind = "list"
        /\ (C16_Failed => fetched.result = List(<< >>))

\* C19: in the spiral tunnel every point has a radius 40 + 20 * growth_norm
\* with growth_norm = (g - min) / (max - min + 1e-9), g the growth rate of the
\* point's row and min, max those of the frame: growth_norm is a number with
\* 0 <= g - min <= max - min, so that 40 <= radius <= 60; a row of minimum
\* growth has growth_norm 0, radius exactly 40; and when all growth rates are
\* equal (max - min = 0) every numerator is 0, every radius exactly 40.
C19_TunnelRadius ==
    TunnelScene =>
        LET gmin == ColumnMin(df, GROWTH)
            gmax == ColumnMax(df, GROWTH)
        IN \A k \in 1..Len(fig.points) :
             LET gn == fig.points[k].growth_norm
             IN /\ ~IsNaN(gn)
                /\ GROWTH \in DOMAIN df.rows[k]
                /\ Val(gn) = <<df.rows[k][GROWTH] - Val(gmin), Val(gmax) - Val(gmin)>>
                /\ 0 <= Val(gn)[1] /\ Val(gn)[1] <= Val(gn)[2]
                /\ (df.rows[k][GROWTH] = Val(gmin) => Val(gn)[1] = 0)
                /\ (Val(gn)[2] = 0 => Val(gn)[1] = 0)

\* How many entries of the sequence seq equal x.
C18_Count(seq, x) == Cardinality({ k \in 1..Len(seq) : seq[k] = x })

\* What a hover text tells of the record it shows: the company name if the
\* frame has the column (else the text numbers the point), and the numbers.
C18_Record(text) == IF COMPANY \in df.columns THEN text ELSE Tail(text)

\* C18: the geolocation spiral called on a non-empty list of n records
\* returns a scene of exactly min(n, 2000) points, in ascending order of
\* valuation, that are a permutation of the rows laid out (every row shown
\* by exactly one point); for n = 1 the one point has angle 0 and radius
\* 2 + 0.3 * 0/1 * 8 = 2, and the figure is not the error figure.
C18_SpiralPermutation ==
    (Called /\ fig.engine = "geolocation" /\ ~Falsy(data)) =>
        LET n == Len(data.items)
            m == IF n > 2000 THEN 2000 ELSE n
        IN /\ fig.kind = "scene"
           /\ Len(fig.points) = m
           /\ Len(df.rows) = m
           /\ \A k \in 1..(m - 1) :
                 Val(fig.points[k].text[2]) <= Val(fig.points[k + 1].text[2])
           /\ LET shown == [k \in 1..m |-> C18_Record(fig.points[k].text)]
                  rows  == [k \in 1..m |-> C18_Record(HoverText(df, df.rows[k], 0))]
              IN IF m <= MaxRows
                   THEN \A k \in 1..m : C18_Count(shown, rows[k]) = C18_Count(rows, rows[k])
                   ELSE /\ { shown[k] : k \in 1..m } = { rows[k] : k \in 1..m }
                        /\ Cardinality({ shown[k] : k \in 1..m }) = m
           /\ (n = 1 => fig.points[1].t = <<0, 1>> /\ fig.points[1].radius = <<0, 1>>)

\* C10: in the geolocation spiral point i (0-based) has z = 0.5*i + 0.1*v_i
\* (in thousandths: 500*i + v_i), v_i being the valuation shown for the point,
\* the valuations are in ascending order, and z never decreases from a point
\* to the next.  (A point whose valuation cell is NaN has no z to compare; such
\* points come last.)
C10_SpiralZMonotone ==
    GeolocationScene =>
        LET n == Len(fig.points)
            z(k) == fig.points[k].z
            v(k) == fig.points[k].text[2]
        IN /\ \A k \in 1..n : IF IsNaN(v(k)) THEN IsNaN(z(k))
                                ELSE z(k) = Num(500 * (k - 1) + Val(v(k)))
           /\ \A k \in 1..(n - 1) :
                /\ (~IsNaN(v(k)) /\ ~IsNaN(v(k + 1))) =>
                      (Val(v(k)) <= Val(v(k + 1)) /\ Val(z(k)) <= Val(z(k + 1)))
                /\ IsNaN(v(k)) => IsNaN(v(k + 1))

C10_Witness ==
    /\ GeolocationScene /\ Len(fig.points) = 2
    /\ VALUATION \in DOMAIN data.items[1] /\ VALUATION \in DOMAIN data.items[2]
    /\ data.items[1][VALUATION] > data.items[2][VALUATION]
    /\ Val(fig.points[1].z) < Val(fig.points[2].z)

====
